---- MODULE Spec2Model ----
(***************************************************************************)
(* Period-aggregation engine of the analytics module: the period resolver  *)
(* (_get_date_range, _get_previous_date_range), the per-tenant settings    *)
(* singleton (AnalyticsSettings.get_settings), the settings-update         *)
(* operations (settings_save, update_analytics_settings) and the           *)
(* dashboard's sales KPIs and period-over-period comparison.               *)
(*                                                                         *)
(* Dates are proleptic Gregorian ordinals, as datetime.date.toordinal():   *)
(* ordinal 1 is 0001-01-01, a Monday.                                      *)
(***************************************************************************)
EXTENDS Integers, Sequences, FiniteSets, Bags, TLC

VARIABLES
    today,      \* the evaluation date, timezone.now().date()
    range,      \* the last call of _get_date_range and what it returned
    window,     \* a window handed to _get_previous_date_range
    previous,   \* what _get_previous_date_range returned for it
    rows,       \* the analytics_settings table
    next_pk,    \* the primary key the next inserted row gets
    returned,   \* per tenant, the primary keys get_settings has returned
    updates,    \* number of settings-update operations performed
    last,       \* the last settings operation: request, instance read, response
    calls,      \* per concurrent request, its position inside get_settings
    installed,  \* the optional modules that can be imported
    sales,      \* the Sale table of the sales module, a bag of rows
    data,       \* the other tables of the collaborators and of this module
    response,   \* the context the last dashboard request returned
    report      \* what the last report, chart, export or tool request returned

periodVars == <<today, range, window, previous>>
settingsVars == <<rows, next_pk, returned, updates, last, calls>>
dashboardVars == <<installed, sales, data, response, report>>
vars == <<today, range, window, previous, rows, next_pk, returned, updates, last, calls,
          installed, sales, data, response, report>>

(***************************************************************************)
(* Bounds                                                                  *)
(***************************************************************************)
\* number of calendar years the evaluation date ranges over
NumYears == 4
\* longest window (end - start, in days) handed to _get_previous_date_range
MaxWindowDays == 366

\* number of tenants (hubs)
NumHubs == 2
\* number of settings-update operations in one behaviour
MaxUpdates == 2
\* number of requests that run get_settings concurrently
NumCallers == 3
\* number of rows in the Sale table
MaxSales == 2
\* number of promoters among the current month's NPS responses
MaxPromoters == 6
\* number of detractors, and of passives, among them
MaxOthers == 2
\* number of products sold in the window
MaxProducts == 11
\* number of customers of a tenant
MaxCustomers == 2
\* number of won leads of a tenant, one above the cap of the close-time mean
MaxWonLeads == 101

\* first calendar year of the evaluation dates (a year before a leap year)
FirstYear == 2023

(***************************************************************************)
(* datetime.date                                                           *)
(***************************************************************************)
IsLeap(y) == (y % 4 = 0) /\ ((y % 100 # 0) \/ (y % 400 = 0))

DaysInMonth(y, m) ==
    IF m = 2 THEN (IF IsLeap(y) THEN 29 ELSE 28)
    ELSE IF m \in {4, 6, 9, 11} THEN 30 ELSE 31

RECURSIVE DaysBeforeMonth(_, _)
DaysBeforeMonth(y, m) ==
    IF m = 1 THEN 0 ELSE DaysBeforeMonth(y, m - 1) + DaysInMonth(y, m - 1)

DaysBeforeYear(y) ==
    (y - 1) * 365 + ((y - 1) \div 4) - ((y - 1) \div 100) + ((y - 1) \div 400)

DaysInYear(y) == IF IsLeap(y) THEN 366 ELSE 365

\* date(y, m, d).toordinal()
Ymd2Ord(y, m, d) == DaysBeforeYear(y) + DaysBeforeMonth(y, m) + d

\* date.fromordinal(n).year / .month / .day
YearOf(n) ==
    CHOOSE y \in (FirstYear - 2)..(FirstYear + NumYears + 1) :
        DaysBeforeYear(y) < n /\ n <= DaysBeforeYear(y) + DaysInYear(y)

MonthOf(n) ==
    LET y == YearOf(n)
        k == n - DaysBeforeYear(y)
    IN CHOOSE m \in 1..12 :
        DaysBeforeMonth(y, m) < k /\ k <= DaysBeforeMonth(y, m) + DaysInMonth(y, m)

DayOf(n) ==
    LET y == YearOf(n) IN n - DaysBeforeYear(y) - DaysBeforeMonth(y, MonthOf(n))

\* date.weekday(): Monday is 0
Weekday(n) == (n + 6) % 7

\* date.replace(month=m, day=d) raises ValueError when the date does not exist
ReplaceRaises(n, m, d) == m \notin 1..12 \/ d \notin 1..DaysInMonth(YearOf(n), m)

Replace(n, m, d) == Ymd2Ord(YearOf(n), m, d)

\* date - timedelta(days=k) raises OverflowError below date.min (ordinal 1)
MinusDaysRaises(n, k) == n - k < 1

MinusDays(n, k) == n - k

FirstDay == Ymd2Ord(FirstYear, 1, 1)
LastDay == Ymd2Ord(FirstYear + NumYears - 1, 12, 31)
Days == FirstDay..LastDay

(***************************************************************************)
(* Period resolver                                                         *)
(***************************************************************************)
PERIOD_CHOICES == {"today", "week", "month", "quarter", "year"}

\* the period strings a request can carry: the recognised keywords, the
\* empty string and unrecognised ones
PeriodStrings == PERIOD_CHOICES \cup {"", "unknown", "MONTH", "invalid_period"}

\* a returned (start_date, end_date) pair, or the exception that escaped
Returned(start, end) == [start |-> start, end |-> end, error |-> "none"]

Raised(e) == [start |-> 0, end |-> 0, error |-> e]

ReplaceDay1(now, m) ==
    IF ReplaceRaises(now, m, 1) THEN Raised("ValueError")
    ELSE Returned(Replace(now, m, 1), now)

week_start_forward(now) == now + Weekday(now)

\* today - timedelta(days=today.weekday())
week_start(now) == MinusDays(now, Weekday(now))

quarter_month_from_zero(now) == (MonthOf(now) \div 3) * 3 + 1

\* ((today.month - 1) // 3) * 3 + 1
quarter_month(now) == ((MonthOf(now) - 1) \div 3) * 3 + 1

default_range_today(now) == Returned(now, now)

\* the else branch: default to month
default_range(now) == ReplaceDay1(now, MonthOf(now))

_get_date_range(period, now) ==
    IF period = "today" THEN Returned(now, now)
    ELSE IF period = "week"
    THEN IF MinusDaysRaises(now, Weekday(now)) THEN Raised("OverflowError")
         ELSE Returned(week_start(now), now)
    ELSE IF period = "month"
    THEN ReplaceDay1(now, MonthOf(now))
    ELSE IF period = "quarter"
    THEN ReplaceDay1(now, quarter_month(now))
    ELSE IF period = "year"
    THEN ReplaceDay1(now, 1)
    ELSE default_range(now)

_get_previous_date_range_overlap(start_date, end_date) ==
    LET delta == end_date - start_date
        prev_end == start_date
        prev_start == MinusDays(prev_end, delta)
    IN Returned(prev_start, prev_end)

_get_previous_date_range(start_date, end_date) ==
    LET delta == end_date - start_date
        prev_end == MinusDays(start_date, 1)
        prev_start == MinusDays(prev_end, delta)
    IN IF MinusDaysRaises(start_date, 1) \/ MinusDaysRaises(prev_end, delta)
       THEN Raised("OverflowError")
       ELSE Returned(prev_start, prev_end)

(***************************************************************************)
(* AnalyticsSettings: one row per tenant, created on first access          *)
(***************************************************************************)
Hubs == 1..NumHubs

\* an optional value: a key of a request that is absent, or present with v
Absent == <<>>

Present(v) == <<v>>

\* a new row with the model's field defaults
DefaultRow(pk, hub_id) ==
    [pk |-> pk, hub_id |-> hub_id,
     default_period |-> "month",
     default_currency |-> "EUR",
     show_profit |-> TRUE,
     show_tax_breakdown |-> FALSE,
     compare_previous_period |-> TRUE,
     fiscal_year_start_month |-> 1]

NoRow == DefaultRow(0, 0)

RowsOf(table, hub_id) == {r \in table : r.hub_id = hub_id}

\* unique_together = [('hub_id',)]: an INSERT of a second row for a tenant fails
UniqueViolation(table, hub_id) == RowsOf(table, hub_id) # {}

\* Model.save() of a loaded instance: every column of the row with its pk
SaveRow(table, instance) == {r \in table : r.pk # instance.pk} \cup {instance}

get_settings_always_create(table, pk, hub_id) ==
    [rows |-> table \cup {DefaultRow(pk, hub_id)}, next_pk |-> pk + 1,
     settings |-> DefaultRow(pk, hub_id), error |-> "none"]

\* AnalyticsSettings.get_settings(hub_id), run without interference:
\* get_or_create(hub_id=hub_id) returns the tenant's row, inserting it first
\* when there is none
get_settings(table, pk, hub_id) ==
    IF RowsOf(table, hub_id) # {}
    THEN [rows |-> table, next_pk |-> pk,
          settings |-> CHOOSE r \in RowsOf(table, hub_id) : TRUE,
          error |-> IF Cardinality(RowsOf(table, hub_id)) > 1
                    THEN "MultipleObjectsReturned" ELSE "none"]
    ELSE [rows |-> table \cup {DefaultRow(pk, hub_id)}, next_pk |-> pk + 1,
          settings |-> DefaultRow(pk, hub_id), error |-> "none"]

\* AnalyticsSettings.get_solo() as the tools use it: the settings of the
\* requesting tenant
get_solo(table, pk, hub_id) == get_settings(table, pk, hub_id)

(***************************************************************************)
(* settings_save: the full settings form                                   *)
(***************************************************************************)
\* len() of the currency strings a form can carry
StrLen(str) == IF str = "" THEN 0 ELSE IF str = "EURO" THEN 4 ELSE 3

\* AnalyticsSettingsForm.is_valid(): the fields with an error
FormErrors(post) ==
    {f \in {"default_period"} :
        post.default_period = Absent \/ post.default_period[1] \notin PERIOD_CHOICES}
    \cup
    {f \in {"default_currency"} :
        \/ post.default_currency = Absent
        \/ StrLen(post.default_currency[1]) = 0
        \/ StrLen(post.default_currency[1]) > 3}
    \cup
    {f \in {"fiscal_year_start_month"} :
        \/ post.fiscal_year_start_month = Absent
        \/ post.fiscal_year_start_month[1] < 1
        \/ post.fiscal_year_start_month[1] > 12}

\* form.save(): the instance with the six form fields from the cleaned data;
\* an unchecked checkbox is False
CleanedInstance(settings, post) ==
    [settings EXCEPT
        !.default_period = post.default_period[1],
        !.default_currency = post.default_currency[1],
        !.show_profit = post.show_profit,
        !.show_tax_breakdown = post.show_tax_breakdown,
        !.compare_previous_period = post.compare_previous_period,
        !.fiscal_year_start_month = post.fiscal_year_start_month[1]]

\* the calls of settings_save that can raise (the database fails under
\* get_or_create, under the form's validation, under form.save()), or none
Faults == {"none", "get_settings", "is_valid", "save"}

\* the body of the try block of settings_save; fault names the call that
\* raises, raised tells that an exception left the block
settings_save_try(table, pk, hub_id, post, fault) ==
    LET got == get_settings(table, pk, hub_id)
        errors == FormErrors(post)
        Raise(t, k, s, e) ==
            [rows |-> t, next_pk |-> k, settings |-> s, success |-> FALSE,
             status |-> 0, errors |-> {}, error |-> e, raised |-> TRUE]
    IN IF fault = "get_settings"
       THEN Raise(table, pk, NoRow, "OperationalError")
       ELSE IF got.error # "none"
       THEN Raise(got.rows, got.next_pk, got.settings, got.error)
       ELSE IF fault = "is_valid"
       THEN Raise(got.rows, got.next_pk, got.settings, "OperationalError")
       ELSE IF errors = {}
       THEN IF fault = "save"
            THEN Raise(got.rows, got.next_pk, got.settings, "OperationalError")
            ELSE [rows |-> SaveRow(got.rows, CleanedInstance(got.settings, post)),
                  next_pk |-> got.next_pk, settings |-> got.settings,
                  success |-> TRUE, status |-> 200, errors |-> {}, error |-> "none",
                  raised |-> FALSE]
       ELSE [rows |-> got.rows, next_pk |-> got.next_pk, settings |-> got.settings,
             success |-> FALSE, status |-> 400, errors |-> errors, error |-> "none",
             raised |-> FALSE]

settings_save_except_validation_only(tried) == tried

\* except Exception as e: the failure response with str(e), status 400
settings_save_except(tried) ==
    IF tried.raised
    THEN [tried EXCEPT !.success = FALSE, !.status = 400, !.raised = FALSE]
    ELSE tried

\* settings_save with one of its calls failing
settings_save_under(table, pk, hub_id, post, fault) ==
    settings_save_except(settings_save_try(table, pk, hub_id, post, fault))

settings_save(table, pk, hub_id, post) ==
    settings_save_under(table, pk, hub_id, post, "none")

(***************************************************************************)
(* update_analytics_settings: the narrow update of the assistant tool      *)
(***************************************************************************)
UPDATE_FIELDS_with_currency ==
    <<"default_period", "fiscal_year_start_month", "show_profit",
      "show_tax_breakdown", "compare_previous_period", "default_currency">>

\* the field names the tool's loop goes through
UPDATE_FIELDS ==
    <<"default_period", "fiscal_year_start_month", "show_profit",
      "show_tax_breakdown", "compare_previous_period">>

\* the loop over the recognised field names from the i-th on: the instance
\* with every field present in args set, and the names appended to updated
RECURSIVE apply_fields(_, _, _, _)
apply_fields(s, updated, args, i) ==
    IF i > Len(UPDATE_FIELDS) THEN [s |-> s, updated |-> updated]
    ELSE LET field == UPDATE_FIELDS[i]
         IN IF args[field] # Absent
            THEN apply_fields([s EXCEPT ![field] = args[field][1]],
                              Append(updated, field), args, i + 1)
            ELSE apply_fields(s, updated, args, i + 1)

UpdateAnalyticsSettings_execute(table, pk, hub_id, args) ==
    LET got == get_solo(table, pk, hub_id)
        r == apply_fields(got.settings, <<>>, args, 1)
    IN IF got.error # "none"
       THEN [rows |-> got.rows, next_pk |-> got.next_pk, settings |-> got.settings,
             updated_fields |-> <<>>, success |-> FALSE, error |-> got.error]
       ELSE [rows |-> IF r.updated # <<>> THEN SaveRow(got.rows, r.s) ELSE got.rows,
             next_pk |-> got.next_pk, settings |-> got.settings,
             updated_fields |-> r.updated, success |-> TRUE, error |-> "none"]

(***************************************************************************)
(* dashboard: sales KPIs and the comparison with the previous period       *)
(***************************************************************************)
RECURSIVE GCD(_, _)
GCD(a, b) == IF b = 0 THEN a ELSE GCD(b, a % b)

Abs(a) == IF a < 0 THEN 0 - a ELSE a

\* the exact quotient n / d as a fraction in lowest terms with den > 0; the
\* division raises when d = 0 (Decimal and float round the quotient to their
\* precision, which the amounts modelled here do not reach)
Quotient(n, d) ==
    IF d = 0 THEN [num |-> 0, den |-> 0, error |-> "ZeroDivisionError"]
    ELSE LET g == GCD(Abs(n), Abs(d))
             sign == IF d < 0 THEN 0 - 1 ELSE 1
         IN [num |-> sign * (n \div g), den |-> sign * (d \div g), error |-> "none"]

Zero == Quotient(0, 1)

Max(a, b) == IF a >= b THEN a ELSE b

\* Sale.objects.filter(hub_id=hub, is_deleted=False, status='completed',
\*   created_at__date__gte=start, created_at__date__lte=end): the matching
\* rows of the bag
CompletedSales(table, hub_id, start_date, end_date) ==
    {sale \in DOMAIN table :
        /\ sale.hub_id = hub_id
        /\ ~sale.is_deleted
        /\ sale.status = "completed"
        /\ sale.created_at >= start_date
        /\ sale.created_at <= end_date}

\* QuerySet.count()
RECURSIVE Count(_, _)
Count(table, qs) ==
    IF qs = {} THEN 0
    ELSE LET sale == CHOOSE x \in qs : TRUE
         IN table[sale] + Count(table, qs \ {sale})

\* aggregate(revenue=Sum('total')): None over no rows
RECURSIVE SumOf(_, _)
SumOf(table, qs) ==
    IF qs = {} THEN 0
    ELSE LET sale == CHOOSE x \in qs : TRUE
         IN table[sale] * sale.total + SumOf(table, qs \ {sale})

SumTotal(table, qs) == IF qs = {} THEN Absent ELSE Present(SumOf(table, qs))

\* agg['revenue'] or Decimal('0.00')
OrZero(aggregate) == IF aggregate = Absent \/ aggregate = Present(0) THEN 0 ELSE aggregate[1]

(***************************************************************************)
(* The optional collaborators: the modules a view tries to import and the  *)
(* tables it reads from them. A table is a set of rows; every row has its  *)
(* primary key pk, its tenant hub_id and the soft-delete mark is_deleted.  *)
(***************************************************************************)
\* sales.models, customers.models, inventory.models, leads.models,
\* quotes.models, support.models, feedback.models, _loyalty.models,
\* segments.models
Modules ==
    {"sales", "customers", "inventory", "leads", "quotes", "support", "feedback",
     "loyalty", "segments"}

\* the tables of the collaborators and of the analytics module itself
TableNames ==
    {"sale_items", "payment_methods", "customers", "products", "leads", "pipelines",
     "stages", "quotes", "tickets", "feedback", "members", "tiers", "points",
     "segments", "saved_reports", "snapshots"}

NoData == [t \in TableNames |-> {}]

\* Model.objects.filter(hub_id=hub, is_deleted=False)
Live(table, hub_id) == {r \in table : r.hub_id = hub_id /\ ~r.is_deleted}

\* created_at__date__gte=start, created_at__date__lte=end
Between(d, start_date, end_date) == d >= start_date /\ d <= end_date

\* aggregate(Sum(...)) over the values f[r] of the rows of qs; 0 stands for
\* the None of an empty queryset where the code goes on with "or 0"
RECURSIVE SumOver(_, _)
SumOver(qs, f) ==
    IF qs = {} THEN 0
    ELSE LET r == CHOOSE x \in qs : TRUE
         IN f[r] + SumOver(qs \ {r}, f)

\* the rows of a queryset in the order the database returns them
RECURSIVE SetToSeq(_)
SetToSeq(qs) ==
    IF qs = {} THEN <<>>
    ELSE LET r == CHOOSE x \in qs : TRUE
         IN <<r>> \o SetToSeq(qs \ {r})

\* order_by(key) ascending
OrderBy(qs, key) == SortSeq(SetToSeq(qs), LAMBDA a, b : key[a] < key[b])

\* order_by('-key')
OrderByDesc(qs, key) == SortSeq(SetToSeq(qs), LAMBDA a, b : key[a] > key[b])

\* queryset[:n]
Limit(seq, n) == IF Len(seq) <= n THEN seq ELSE SubSeq(seq, 1, n)

\* the integers of a set in ascending order
RECURSIVE Ascending(_)
Ascending(ks) ==
    IF ks = {} THEN <<>>
    ELSE LET k == CHOOSE x \in ks : \A y \in ks : x <= y
         IN <<k>> \o Ascending(ks \ {k})

\* round(n / d) of Python 3 for d > 0: to the nearest integer, a tie to the
\* even one (the float quotient rounds like the exact one for the counts
\* modelled here: they differ first at 23 / 40)
round(n, d) ==
    LET q == n \div d
        twice == 2 * (n - q * d)
    IN IF twice < d THEN q
       ELSE IF twice > d THEN q + 1
       ELSE IF q % 2 = 0 THEN q ELSE q + 1

\* TruncMonth(created_at): the month as year * 12 + (month - 1)
TruncMonth(d) == YearOf(d) * 12 + (MonthOf(d) - 1)

\* strftime('%b %Y') of a truncated month: the month and the year
MonthLabel(month) == [b |-> (month % 12) + 1, Y |-> month \div 12]

\* strftime('%d/%m') of a day
DayLabel(d) == [d |-> DayOf(d), m |-> MonthOf(d)]

\* str(date) and strftime('%Y-%m-%d')
IsoDate(d) == [Y |-> YearOf(d), m |-> MonthOf(d), d |-> DayOf(d)]

avg_ticket_unguarded(total_revenue, total_sales) == Quotient(total_revenue, total_sales)

\* avg_ticket = total_revenue / max(total_sales, 1)
avg_ticket_of(total_revenue, total_sales) == Quotient(total_revenue, Max(total_sales, 1))

percent_change_nonnegative(compare, current, prev) ==
    IF compare /\ prev >= 0
    THEN Present(Quotient((current - prev) * 100, prev))
    ELSE Absent

\* revenue_change / sales_change: None unless comparison is on and the
\* previous value is above zero
percent_change(compare, current, prev) ==
    IF compare /\ prev > 0
    THEN Present(Quotient((current - prev) * 100, prev))
    ELSE Absent

NoChange == Absent

SoldItems_any_status(sale_items, hub_id, start_date, end_date) ==
    {i \in Live(sale_items, hub_id) : Between(i.sale_created_at, start_date, end_date)}

\* values('product_name').annotate(total_qty=Sum('quantity'),
\*   total_revenue=Sum('line_total')).order_by('-total_revenue')[:5] over the
\* items of the window's completed sales
SoldItems(sale_items, hub_id, start_date, end_date) ==
    {i \in Live(sale_items, hub_id) :
        /\ i.sale_status = "completed"
        /\ Between(i.sale_created_at, start_date, end_date)}

dashboard_top_products(sale_items, hub_id, start_date, end_date) ==
    LET items == SoldItems(sale_items, hub_id, start_date, end_date)
        Of(name) == {i \in items : i.product_name = name}
        groups == {[product_name |-> name,
                    total_qty |-> SumOver(Of(name), [i \in Of(name) |-> i.quantity]),
                    total_revenue |-> SumOver(Of(name), [i \in Of(name) |-> i.line_total])] :
                   name \in {i.product_name : i \in items}}
    IN Limit(OrderByDesc(groups, [g \in groups |-> g.total_revenue]), 5)

dashboard_avg_nps_strict(feedback, hub_id, start_date, end_date) ==
    LET nps_qs == {r \in Live(feedback, hub_id) :
                      /\ r.form_type = "nps_10"
                      /\ r.score # Absent
                      /\ Between(r.created_at, start_date, end_date)}
        promoters == Cardinality({r \in nps_qs : r.score[1] > 9})
        detractors == Cardinality({r \in nps_qs : r.score[1] <= 6})
        total_responses == Cardinality(nps_qs)
    IN IF nps_qs # {} /\ total_responses > 0
       THEN Present(round((promoters - detractors) * 100, total_responses))
       ELSE Absent

\* avg_nps of the dashboard: over the window's scored responses to nps_10
\* forms, round((promoters - detractors) / total_responses * 100), or None
dashboard_avg_nps(feedback, hub_id, start_date, end_date) ==
    LET nps_qs == {r \in Live(feedback, hub_id) :
                      /\ r.form_type = "nps_10"
                      /\ r.score # Absent
                      /\ Between(r.created_at, start_date, end_date)}
        promoters == Cardinality({r \in nps_qs : r.score[1] >= 9})
        detractors == Cardinality({r \in nps_qs : r.score[1] <= 6})
        total_responses == Cardinality(nps_qs)
    IN IF nps_qs # {} /\ total_responses > 0
       THEN Present(round((promoters - detractors) * 100, total_responses))
       ELSE Absent

\* the KPIs the dashboard takes from customers, inventory, leads, support,
\* feedback, and the presence of loyalty and segments
dashboard_crm(db, modules, hub_id, start_date, end_date) ==
    LET open_qs == {l \in Live(db.leads, hub_id) : l.status = "open"}
    IN [top_products |->
            IF "sales" \in modules
            THEN dashboard_top_products(db.sale_items, hub_id, start_date, end_date)
            ELSE <<>>,
        new_customers |->
            IF "customers" \in modules
            THEN Cardinality({c \in Live(db.customers, hub_id) :
                                 Between(c.created_at, start_date, end_date)})
            ELSE 0,
        low_stock_count |->
            IF "inventory" \in modules
            THEN Cardinality({q \in Live(db.products, hub_id) :
                                 q.is_active /\ q.stock <= q.low_stock_threshold})
            ELSE 0,
        has_leads_module |-> "leads" \in modules,
        pipeline_value |->
            IF "leads" \in modules THEN SumOver(open_qs, [l \in open_qs |-> l.value])
            ELSE 0,
        open_leads |-> IF "leads" \in modules THEN Cardinality(open_qs) ELSE 0,
        has_support_module |-> "support" \in modules,
        open_tickets |->
            IF "support" \in modules
            THEN Cardinality({t \in Live(db.tickets, hub_id) :
                                 t.status \in {"open", "in_progress", "waiting_customer"}})
            ELSE 0,
        has_feedback_module |-> "feedback" \in modules,
        avg_nps |->
            IF "feedback" \in modules
            THEN dashboard_avg_nps(db.feedback, hub_id, start_date, end_date)
            ELSE Absent,
        has_loyalty_module |-> "loyalty" \in modules,
        has_segments_module |-> "segments" \in modules]

\* the context dashboard returns for a tenant, the optional period parameter,
\* the settings read and the evaluation date
dashboard(db, table, modules, settings, hub_id, period_param, now) ==
    LET period == IF period_param = Absent THEN settings.default_period
                  ELSE period_param[1]
        dates == _get_date_range(period, now)
        prev_dates == _get_previous_date_range(dates.start, dates.end)
        has_sales == "sales" \in modules
        base_qs == CompletedSales(table, hub_id, dates.start, dates.end)
        total_sales == IF has_sales THEN Count(table, base_qs) ELSE 0
        total_revenue == IF has_sales THEN OrZero(SumTotal(table, base_qs)) ELSE 0
        avg_ticket == IF has_sales THEN avg_ticket_of(total_revenue, total_sales) ELSE Zero
        compared == has_sales /\ settings.compare_previous_period
        prev_qs == CompletedSales(table, hub_id, prev_dates.start, prev_dates.end)
        prev_sales == IF compared THEN Count(table, prev_qs) ELSE 0
        prev_revenue == IF compared THEN OrZero(SumTotal(table, prev_qs)) ELSE 0
        revenue_change ==
            percent_change(settings.compare_previous_period, total_revenue, prev_revenue)
        sales_change ==
            percent_change(settings.compare_previous_period, total_sales, prev_sales)
        raised == {e \in {avg_ticket.error}
                        \cup {c[1].error : c \in {revenue_change, sales_change} \ {Absent}}
                        \cup {dates.error, prev_dates.error} : e # "none"}
    IN dashboard_crm(db, modules, hub_id, dates.start, dates.end) @@
       [done |-> TRUE,
        hub |-> hub_id,
        settings |-> settings,
        period |-> period,
        start_date |-> dates.start,
        end_date |-> dates.end,
        prev_start |-> prev_dates.start,
        prev_end |-> prev_dates.end,
        total_revenue |-> total_revenue,
        total_sales |-> total_sales,
        avg_ticket |-> avg_ticket,
        revenue_change |-> revenue_change,
        sales_change |-> sales_change,
        prev_revenue |-> prev_revenue,
        prev_sales |-> prev_sales,
        error |-> IF raised = {} THEN "none" ELSE CHOOSE e \in raised : TRUE]

ResolvePeriod_month(settings, period_param, now) ==
    LET period == IF period_param = Absent THEN "month" ELSE period_param[1]
    IN [period |-> period, dates |-> _get_date_range(period, now)]

(***************************************************************************)
(* sales_report, products_report, customers_report                         *)
(***************************************************************************)
\* the period and the window every view resolves first
ResolvePeriod(settings, period_param, now) ==
    LET period == IF period_param = Absent THEN settings.default_period
                  ELSE period_param[1]
    IN [period |-> period, dates |-> _get_date_range(period, now)]

\* aggregate(Sum(...)) over rows of the Sale bag
RECURSIVE BagSum(_, _, _)
BagSum(table, qs, f) ==
    IF qs = {} THEN 0
    ELSE LET sale == CHOOSE x \in qs : TRUE
         IN table[sale] * f[sale] + BagSum(table, qs \ {sale}, f)

\* f'{h:02d}:00': the two digits of the hour
HourLabel(h) == [tens |-> h \div 10, ones |-> h % 10]

\* range(24), as the sequence of its values
hours_of_day == [i \in 1..24 |-> i - 1]

hourly_distribution_of_last_day(table, base_qs) ==
    [i \in 1..24 |->
        LET h == hours_of_day[i]
            at == {sale \in base_qs :
                      /\ sale.hour = h
                      /\ \A other \in base_qs :
                            other.hour = h => other.created_at <= sale.created_at}
        IN [hour |-> HourLabel(h),
            count |-> Count(table, at),
            revenue |-> BagSum(table, at, [sale \in at |-> sale.total])]]

\* hourly_distribution: one entry per hour of the day, the sales of all the
\* window's days merged by hour
hourly_distribution_of(table, base_qs) ==
    [i \in 1..24 |->
        LET h == hours_of_day[i]
            at == {sale \in base_qs : sale.hour = h}
        IN [hour |-> HourLabel(h),
            count |-> Count(table, at),
            revenue |-> BagSum(table, at, [sale \in at |-> sale.total])]]

sales_report(db, table, modules, settings, hub_id, period_param, now) ==
    LET resolved == ResolvePeriod(settings, period_param, now)
        dates == resolved.dates
        has_sales == "sales" \in modules
        base_qs == IF has_sales
                   THEN CompletedSales(table, hub_id, dates.start, dates.end)
                   ELSE {}
        total_sales == Count(table, base_qs)
        On(day) == {sale \in base_qs : sale.created_at = day}
        By(employee) == {sale \in base_qs : sale.employee = employee}
        Paid(pm) == {sale \in base_qs : sale.payment_method = pm.pk}
        employees == {sale.employee : sale \in base_qs}
        Revenue(e) == BagSum(table, By(e), [sale \in By(e) |-> sale.total])
        emp_data == OrderByDesc(employees, [e \in employees |-> Revenue(e)])
    IN [done |-> TRUE, view |-> "sales_report", hub |-> hub_id, settings |-> settings,
        period |-> resolved.period, start_date |-> dates.start, end_date |-> dates.end,
        total_revenue |-> BagSum(table, base_qs, [sale \in base_qs |-> sale.total]),
        total_sales |-> total_sales,
        total_tax |-> BagSum(table, base_qs, [sale \in base_qs |-> sale.tax_amount]),
        revenue_by_day |->
            LET days == Ascending({sale.created_at : sale \in base_qs})
            IN [i \in 1..Len(days) |->
                   [date |-> IsoDate(days[i]),
                    revenue |-> BagSum(table, On(days[i]),
                                       [sale \in On(days[i]) |-> sale.total]),
                    count |-> Count(table, On(days[i]))]],
        payment_breakdown |->
            IF has_sales
            THEN {[name |-> pm.name,
                   count |-> Count(table, Paid(pm)),
                   total |-> BagSum(table, Paid(pm), [sale \in Paid(pm) |-> sale.total]),
                   percentage |-> round(Count(table, Paid(pm)) * 100, Max(total_sales, 1))] :
                  pm \in {m \in Live(db.payment_methods, hub_id) :
                             m.is_active /\ Count(table, Paid(m)) > 0}}
            ELSE {},
        sales_by_employee |->
            [i \in 1..Len(emp_data) |->
                [name |-> IF emp_data[i] = Absent \/ emp_data[i] = Present("")
                          THEN "Unknown" ELSE emp_data[i][1],
                 count |-> Count(table, By(emp_data[i])),
                 revenue |-> Revenue(emp_data[i])]],
        hourly_distribution |->
            IF has_sales THEN hourly_distribution_of(table, base_qs) ELSE <<>>,
        error |-> dates.error]

products_report(db, modules, settings, hub_id, period_param, now) ==
    LET resolved == ResolvePeriod(settings, period_param, now)
        dates == resolved.dates
        items_qs == IF "sales" \in modules
                    THEN SoldItems(db.sale_items, hub_id, dates.start, dates.end)
                    ELSE {}
        Of(key) == {i \in items_qs : i.product_name = key.name /\ i.product_sku = key.sku}
        groups == {[product_name |-> key.name, product_sku |-> key.sku,
                    total_qty |-> SumOver(Of(key), [i \in Of(key) |-> i.quantity]),
                    total_revenue |-> SumOver(Of(key), [i \in Of(key) |-> i.line_total])] :
                   key \in {[name |-> i.product_name, sku |-> i.product_sku] : i \in items_qs}}
        products_qs == IF "inventory" \in modules
                       THEN {q \in Live(db.products, hub_id) : q.is_active}
                       ELSE {}
        margin_items == {q \in products_qs : q.cost > 0}
    IN [done |-> TRUE, view |-> "products_report", hub |-> hub_id, settings |-> settings,
        period |-> resolved.period, start_date |-> dates.start, end_date |-> dates.end,
        top_sellers |-> Limit(OrderByDesc(groups, [g \in groups |-> g.total_revenue]), 10),
        slow_movers |-> Limit(OrderBy(groups, [g \in groups |-> g.total_qty]), 10),
        stock_value |-> SumOver(products_qs, [q \in products_qs |-> q.price * q.stock]),
        total_products |-> Cardinality(products_qs),
        low_stock_count |->
            Cardinality({q \in products_qs : q.stock <= q.low_stock_threshold}),
        margin_data |->
            LET top == Limit(OrderByDesc(margin_items, [q \in margin_items |-> q.price]), 10)
            IN [i \in 1..Len(top) |->
                   [name |-> top[i].name, price |-> top[i].price, cost |-> top[i].cost,
                    stock |-> top[i].stock]],
        error |-> dates.error]

\* LIFECYCLE_STAGE_CHOICES and SOURCE_CHOICES of the customers module, by key
LIFECYCLE_STAGE_CHOICES == <<"lead", "active", "loyal">>

SOURCE_CHOICES == <<"walk_in", "referral">>

\* the (label, low, high) buckets of the visit-frequency histogram
freq_ranges ==
    <<[label |-> "1", low |-> 1, high |-> 1],
      [label |-> "2-5", low |-> 2, high |-> 5],
      [label |-> "6-10", low |-> 6, high |-> 10],
      [label |-> "11-20", low |-> 11, high |-> 20],
      [label |-> "20+", low |-> 21, high |-> 99999]>>

\* the entries of a distribution over the choices, zero counts left out
Distribution(choices, CountOf(_)) ==
    LET kept == SelectSeq(choices, LAMBDA k : CountOf(k) > 0)
    IN [i \in 1..Len(kept) |-> [key |-> kept[i], count |-> CountOf(kept[i])]]

returning_customers_created_by_start(customers_qs, start_date, end_date) ==
    {c \in customers_qs :
        /\ c.last_purchase_date # Absent
        /\ Between(c.last_purchase_date[1], start_date, end_date)
        /\ c.created_at <= start_date}

\* customers_qs.filter(last_purchase_date__isnull=False,
\*   last_purchase_date__date__gte=start_date,
\*   last_purchase_date__date__lte=end_date, created_at__date__lt=start_date)
returning_customers_of(customers_qs, start_date, end_date) ==
    {c \in customers_qs :
        /\ c.last_purchase_date # Absent
        /\ Between(c.last_purchase_date[1], start_date, end_date)
        /\ c.created_at < start_date}

customers_report(db, modules, settings, hub_id, period_param, now) ==
    LET resolved == ResolvePeriod(settings, period_param, now)
        dates == resolved.dates
        customers_qs == IF "customers" \in modules THEN Live(db.customers, hub_id) ELSE {}
        spenders == {c \in customers_qs : c.total_spent > 0}
        InRange(b) == Cardinality({c \in customers_qs :
                                      c.total_purchases >= b.low /\ c.total_purchases <= b.high})
        InStage(k) == Cardinality({c \in customers_qs : c.lifecycle_stage = k})
        FromSource(k) == Cardinality({c \in customers_qs : c.source = k})
    IN [done |-> TRUE, view |-> "customers_report", hub |-> hub_id, settings |-> settings,
        period |-> resolved.period, start_date |-> dates.start, end_date |-> dates.end,
        total_customers |-> Cardinality(customers_qs),
        new_customers |->
            Cardinality({c \in customers_qs : Between(c.created_at, dates.start, dates.end)}),
        returning_customers |->
            Cardinality(returning_customers_of(customers_qs, dates.start, dates.end)),
        top_spenders |->
            LET top == Limit(OrderByDesc(spenders, [c \in spenders |-> c.total_spent]), 10)
            IN [i \in 1..Len(top) |->
                   [name |-> top[i].name, total_spent |-> top[i].total_spent,
                    total_purchases |-> top[i].total_purchases]],
        avg_lifetime_value |->
            IF spenders = {} THEN Zero
            ELSE Quotient(SumOver(spenders, [c \in spenders |-> c.total_spent]),
                          Cardinality(spenders)),
        visit_frequency |->
            LET kept == SelectSeq(freq_ranges, LAMBDA b : InRange(b) > 0)
            IN [i \in 1..Len(kept) |-> [range |-> kept[i].label, count |-> InRange(kept[i])]],
        lifecycle_distribution |-> Distribution(LIFECYCLE_STAGE_CHOICES, InStage),
        source_distribution |-> Distribution(SOURCE_CHOICES, FromSource),
        error |-> dates.error]

(***************************************************************************)
(* pipeline_report, loyalty_report                                         *)
(***************************************************************************)
\* (timezone.now() - timedelta(days=180)).date()
six_months_ago(now) == now - 180

\* Pipeline.objects.filter(..., is_default=True).first(), else the first
\* pipeline of the tenant; first() takes the lowest primary key
default_pipeline_of(pipelines, hub_id) ==
    LET mine == Live(pipelines, hub_id)
        marked == {q \in mine : q.is_default}
        First(qs) == CHOOSE q \in qs : \A o \in qs : q.pk <= o.pk
    IN IF marked # {} THEN Present(First(marked))
       ELSE IF mine # {} THEN Present(First(mine))
       ELSE Absent

\* the tenant's stages of the default pipeline, by their order
stages_of(db, hub_id) ==
    LET default_pipeline == default_pipeline_of(db.pipelines, hub_id)
        stages == IF default_pipeline = Absent THEN {}
                  ELSE {g \in Live(db.stages, hub_id) : g.pipeline = default_pipeline[1].pk}
    IN OrderBy(stages, [g \in stages |-> g.order])

\* values(key).annotate(count=Count('id')).order_by('-count')
CountBy(qs, key) ==
    LET groups == {[key |-> k, count |-> Cardinality({r \in qs : key[r] = k})] :
                   k \in {key[r] : r \in qs}}
    IN OrderByDesc(groups, [g \in groups |-> g.count])

percentage_floor(part, whole) == IF whole > 0 THEN (part * 100) \div whole ELSE 0

\* round(part / whole * 100) if whole > 0, else the initial 0
percentage_of(part, whole) == IF whole > 0 THEN round(part * 100, whole) ELSE 0

won_lost_monthly_of_won_months(all_leads, now) ==
    LET won == {l \in all_leads : /\ l.status = "won"
                                  /\ l.won_date # Absent
                                  /\ l.won_date[1] >= six_months_ago(now)}
        lost == {l \in all_leads : /\ l.status = "lost"
                                   /\ l.lost_date # Absent
                                   /\ l.lost_date[1] >= six_months_ago(now)}
        months == Ascending({TruncMonth(l.won_date[1]) : l \in won})
    IN [i \in 1..Len(months) |->
           [month |-> MonthLabel(months[i]),
            won |-> Cardinality({l \in won : TruncMonth(l.won_date[1]) = months[i]}),
            lost |-> Cardinality({l \in lost : TruncMonth(l.lost_date[1]) = months[i]})]]

\* the months of the won and the lost leads since six_months_ago, merged and
\* sorted by their '%Y-%m' key
won_lost_monthly_of(all_leads, now) ==
    LET won == {l \in all_leads : /\ l.status = "won"
                                  /\ l.won_date # Absent
                                  /\ l.won_date[1] >= six_months_ago(now)}
        lost == {l \in all_leads : /\ l.status = "lost"
                                   /\ l.lost_date # Absent
                                   /\ l.lost_date[1] >= six_months_ago(now)}
        months == Ascending({TruncMonth(l.won_date[1]) : l \in won}
                            \cup {TruncMonth(l.lost_date[1]) : l \in lost})
    IN [i \in 1..Len(months) |->
           [month |-> MonthLabel(months[i]),
            won |-> Cardinality({l \in won : TruncMonth(l.won_date[1]) = months[i]}),
            lost |-> Cardinality({l \in lost : TruncMonth(l.lost_date[1]) = months[i]})]]

\* won_leads[:100] has no order_by of its own: the slice follows the order
\* the Lead table returns its rows in, kept in each row as its position
pipeline_report(db, modules, settings, hub_id, period_param, now) ==
    LET resolved == ResolvePeriod(settings, period_param, now)
        dates == resolved.dates
        has_leads_module == "leads" \in modules
        has_quotes_module == "quotes" \in modules
        all_leads == IF has_leads_module THEN Live(db.leads, hub_id) ELSE {}
        open_qs == {l \in all_leads : l.status = "open"}
        won_in_period == {l \in all_leads : /\ l.status = "won"
                                            /\ l.won_date # Absent
                                            /\ Between(l.won_date[1], dates.start, dates.end)}
        lost_in_period == {l \in all_leads : /\ l.status = "lost"
                                             /\ l.lost_date # Absent
                                             /\ Between(l.lost_date[1], dates.start, dates.end)}
        total_closed_period == Cardinality(won_in_period) + Cardinality(lost_in_period)
        won_leads == {l \in all_leads : l.status = "won" /\ l.won_date # Absent}
        capped == LET some == Limit(OrderBy(won_leads, [l \in won_leads |-> l.position]),
                                    100)
                  IN {some[i] : i \in 1..Len(some)}
        stages == IF has_leads_module THEN stages_of(db, hub_id) ELSE <<>>
        lost_with_reason == {l \in lost_in_period : l.loss_reason # Absent}
        quotes_qs == IF has_quotes_module
                     THEN {q \in Live(db.quotes, hub_id) :
                              Between(q.created_at, dates.start, dates.end)}
                     ELSE {}
        quotes_accepted == Cardinality({q \in quotes_qs : q.status = "accepted"})
        quotes_decided == Cardinality({q \in quotes_qs : q.status \in {"accepted", "rejected"}})
    IN [done |-> TRUE, view |-> "pipeline_report", hub |-> hub_id, settings |-> settings,
        period |-> resolved.period, start_date |-> dates.start, end_date |-> dates.end,
        has_leads_module |-> has_leads_module,
        has_quotes_module |-> has_quotes_module,
        pipeline_value |-> SumOver(open_qs, [l \in open_qs |-> l.value]),
        open_leads |-> Cardinality(open_qs),
        conversion_rate |-> percentage_of(Cardinality(won_in_period), total_closed_period),
        avg_close_days |->
            IF capped # {}
            THEN round(SumOver(capped, [l \in capped |-> l.won_date[1] - l.created_at]),
                       Cardinality(capped))
            ELSE 0,
        pipeline_by_stage |->
            [i \in 1..Len(stages) |->
                LET stage_leads == {l \in open_qs : l.stage = stages[i].pk}
                IN [name |-> stages[i].name,
                    count |-> Cardinality(stage_leads),
                    value |-> SumOver(stage_leads, [l \in stage_leads |-> l.value])]],
        leads_by_source |-> CountBy(open_qs, [l \in open_qs |-> l.source]),
        loss_reasons |->
            CountBy(lost_with_reason, [l \in lost_with_reason |-> l.loss_reason[1]]),
        won_lost_monthly |-> won_lost_monthly_of(all_leads, now),
        quotes_total |-> Cardinality(quotes_qs),
        quotes_value |-> SumOver(quotes_qs, [q \in quotes_qs |-> q.total]),
        quotes_accepted |-> quotes_accepted,
        quotes_acceptance_rate |-> percentage_of(quotes_accepted, quotes_decided),
        error |-> dates.error]

\* the scored responses to nps_10 forms of a tenant
NpsResponses(feedback, hub_id) ==
    {r \in Live(feedback, hub_id) : r.form_type = "nps_10" /\ r.score # Absent}

\* avg_nps of the loyalty report: the NPS of the period's responses
loyalty_avg_nps(feedback, hub_id, start_date, end_date) ==
    LET period_nps == {r \in NpsResponses(feedback, hub_id) :
                          Between(r.created_at, start_date, end_date)}
        promoters == Cardinality({r \in period_nps : r.score[1] >= 9})
        detractors == Cardinality({r \in period_nps : r.score[1] <= 6})
        total_responses == Cardinality(period_nps)
    IN IF period_nps # {} /\ total_responses > 0
       THEN Present(round((promoters - detractors) * 100, total_responses))
       ELSE Absent

loyalty_nps_trend_padded(feedback, hub_id, now) ==
    LET nps_qs == NpsResponses(feedback, hub_id)
        recent == {r \in nps_qs : r.created_at >= six_months_ago(now)}
        months == Ascending(TruncMonth(six_months_ago(now))..TruncMonth(now))
    IN [i \in 1..Len(months) |->
           LET month_qs == {r \in nps_qs : TruncMonth(r.created_at) = months[i]}
               m_promoters == Cardinality({r \in month_qs : r.score[1] >= 9})
               m_detractors == Cardinality({r \in month_qs : r.score[1] <= 6})
               m_total == Cardinality({r \in recent : TruncMonth(r.created_at) = months[i]})
           IN [month |-> MonthLabel(months[i]),
               nps |-> IF m_total > 0
                       THEN round((m_promoters - m_detractors) * 100, m_total)
                       ELSE 0,
               responses |-> m_total]]

\* nps_trend of the loyalty report: one entry per month with a response since
\* six_months_ago; promoters and detractors are counted over month_qs, every
\* response of that calendar month, the total over the responses since
\* six_months_ago
loyalty_nps_trend(feedback, hub_id, now) ==
    LET nps_qs == NpsResponses(feedback, hub_id)
        recent == {r \in nps_qs : r.created_at >= six_months_ago(now)}
        months == Ascending({TruncMonth(r.created_at) : r \in recent})
    IN [i \in 1..Len(months) |->
           LET month_qs == {r \in nps_qs : TruncMonth(r.created_at) = months[i]}
               m_promoters == Cardinality({r \in month_qs : r.score[1] >= 9})
               m_detractors == Cardinality({r \in month_qs : r.score[1] <= 6})
               m_total == Cardinality({r \in recent : TruncMonth(r.created_at) = months[i]})
           IN [month |-> MonthLabel(months[i]),
               nps |-> IF m_total > 0
                       THEN round((m_promoters - m_detractors) * 100, m_total)
                       ELSE 0,
               responses |-> m_total]]

loyalty_report(db, modules, settings, hub_id, period_param, now) ==
    LET resolved == ResolvePeriod(settings, period_param, now)
        dates == resolved.dates
        has_customers_module == "customers" \in modules
        has_loyalty_module == "loyalty" \in modules
        has_feedback_module == "feedback" \in modules
        has_segments_module == "segments" \in modules
        customers_qs == IF has_customers_module THEN Live(db.customers, hub_id) ELSE {}
        InStage(k) == Cardinality({c \in customers_qs : c.lifecycle_stage = k})
        FromSource(k) == Cardinality({c \in customers_qs : c.source = k})
        members_qs == IF has_loyalty_module THEN Live(db.members, hub_id) ELSE {}
        active_tiers == IF has_loyalty_module
                        THEN {t \in Live(db.tiers, hub_id) : t.is_active}
                        ELSE {}
        tiers == OrderBy(active_tiers, [t \in active_tiers |-> t.sort_order])
        txn_qs == IF has_loyalty_module
                  THEN {t \in Live(db.points, hub_id) :
                           Between(t.created_at, dates.start, dates.end)}
                  ELSE {}
        earned == {t \in txn_qs : t.transaction_type = "earn"}
        redeemed == {t \in txn_qs : t.transaction_type = "redeem"}
        active_segments == IF has_segments_module
                           THEN {g \in Live(db.segments, hub_id) : g.is_active}
                           ELSE {}
        top_segments ==
            Limit(OrderByDesc(active_segments,
                              [g \in active_segments |-> g.customer_count]), 10)
    IN [done |-> TRUE, view |-> "loyalty_report", hub |-> hub_id, settings |-> settings,
        period |-> resolved.period, start_date |-> dates.start, end_date |-> dates.end,
        has_customers_module |-> has_customers_module,
        has_loyalty_module |-> has_loyalty_module,
        has_feedback_module |-> has_feedback_module,
        has_segments_module |-> has_segments_module,
        total_customers |-> Cardinality(customers_qs),
        lifecycle_distribution |-> Distribution(LIFECYCLE_STAGE_CHOICES, InStage),
        source_distribution |-> Distribution(SOURCE_CHOICES, FromSource),
        total_members |-> Cardinality(members_qs),
        active_members |-> Cardinality({m \in members_qs : m.is_active}),
        tier_distribution |->
            [i \in 1..Len(tiers) |->
                [name |-> tiers[i].name,
                 count |-> Cardinality({m \in members_qs : m.tier = tiers[i].pk})]],
        total_points_issued |-> SumOver(earned, [t \in earned |-> t.points]),
        total_points_redeemed |-> Abs(SumOver(redeemed, [t \in redeemed |-> t.points])),
        avg_nps |->
            IF has_feedback_module
            THEN loyalty_avg_nps(db.feedback, hub_id, dates.start, dates.end)
            ELSE Absent,
        nps_trend |->
            IF has_feedback_module THEN loyalty_nps_trend(db.feedback, hub_id, now)
            ELSE <<>>,
        active_segments |->
            [i \in 1..Len(top_segments) |->
                [name |-> top_segments[i].name, count |-> top_segments[i].customer_count]],
        error |-> dates.error]

(***************************************************************************)
(* api_chart_data, export_csv                                              *)
(***************************************************************************)
\* request.GET.get(key, default)
GetOr(param, default) == IF param = Absent THEN default ELSE param[1]

\* nps_trend of the chart: as in the loyalty report, but every count is taken
\* over the responses since six_months_ago
chart_nps_trend(feedback, hub_id, now) ==
    LET nps_qs == {r \in NpsResponses(feedback, hub_id) :
                      r.created_at >= six_months_ago(now)}
        months == Ascending({TruncMonth(r.created_at) : r \in nps_qs})
    IN [i \in 1..Len(months) |->
           LET month_qs == {r \in nps_qs : TruncMonth(r.created_at) = months[i]}
               promoters == Cardinality({r \in month_qs : r.score[1] >= 9})
               detractors == Cardinality({r \in month_qs : r.score[1] <= 6})
               m_total == Cardinality(month_qs)
           IN [month |-> MonthLabel(months[i]),
               nps |-> IF m_total > 0
                       THEN round((promoters - detractors) * 100, m_total)
                       ELSE 0]]

\* the points of a chart, in the order the view appends them: each point
\* gives the label appended to labels and the value appended to values
chart_points(db, table, modules, hub_id, chart_type, start_date, end_date, now) ==
    LET sold == CompletedSales(table, hub_id, start_date, end_date)
        On(day) == {sale \in sold : sale.created_at = day}
        sale_days == Ascending({sale.created_at : sale \in sold})
        created == {c \in Live(db.customers, hub_id) :
                       Between(c.created_at, start_date, end_date)}
        customer_days == Ascending({c.created_at : c \in created})
        items == SoldItems(db.sale_items, hub_id, start_date, end_date)
        Of(name) == {i \in items : i.product_name = name}
        products == {[product_name |-> name,
                      total |-> SumOver(Of(name), [i \in Of(name) |-> i.line_total])] :
                     name \in {i.product_name : i \in items}}
        top == Limit(OrderByDesc(products, [g \in products |-> g.total]), 10)
        stages == stages_of(db, hub_id)
        customers_qs == Live(db.customers, hub_id)
        InStage(k) == Cardinality({c \in customers_qs : c.lifecycle_stage = k})
        stage_counts == Distribution(LIFECYCLE_STAGE_CHOICES, InStage)
        trend == chart_nps_trend(db.feedback, hub_id, now)
    IN IF chart_type = "revenue" /\ "sales" \in modules
       THEN [i \in 1..Len(sale_days) |->
                [label |-> DayLabel(sale_days[i]),
                 value |-> BagSum(table, On(sale_days[i]),
                                  [sale \in On(sale_days[i]) |-> sale.total])]]
       ELSE IF chart_type = "sales_count" /\ "sales" \in modules
       THEN [i \in 1..Len(sale_days) |->
                [label |-> DayLabel(sale_days[i]), value |-> Count(table, On(sale_days[i]))]]
       ELSE IF chart_type = "customers" /\ "customers" \in modules
       THEN [i \in 1..Len(customer_days) |->
                [label |-> DayLabel(customer_days[i]),
                 value |-> Cardinality({c \in created : c.created_at = customer_days[i]})]]
       ELSE IF chart_type = "products" /\ "sales" \in modules
       THEN [i \in 1..Len(top) |->
                [label |-> IF top[i].product_name = "" THEN "Unknown"
                           ELSE top[i].product_name,
                 value |-> top[i].total]]
       ELSE IF chart_type = "pipeline_by_stage" /\ "leads" \in modules
       THEN [i \in 1..Len(stages) |->
                LET stage_leads == {l \in Live(db.leads, hub_id) :
                                       l.status = "open" /\ l.stage = stages[i].pk}
                IN [label |-> stages[i].name,
                    value |-> SumOver(stage_leads, [l \in stage_leads |-> l.value])]]
       ELSE IF chart_type = "lifecycle" /\ "customers" \in modules
       THEN [i \in 1..Len(stage_counts) |->
                [label |-> stage_counts[i].key, value |-> stage_counts[i].count]]
       ELSE IF chart_type = "nps_trend" /\ "feedback" \in modules
       THEN [i \in 1..Len(trend) |-> [label |-> trend[i].month, value |-> trend[i].nps]]
       ELSE <<>>

api_chart_data_default_type(db, table, modules, hub_id, type_param, period_param, now) ==
    LET period == GetOr(period_param, "month")
        dates == _get_date_range(period, now)
        points == chart_points(db, table, modules, hub_id, GetOr(type_param, "revenue"),
                               dates.start, dates.end, now)
    IN [done |-> TRUE, view |-> "api_chart_data", hub |-> hub_id,
        labels |-> [i \in 1..Len(points) |-> points[i].label],
        values |-> [i \in 1..Len(points) |-> points[i].value],
        type |-> "revenue", period |-> period, error |-> dates.error]

\* the JSON api_chart_data returns
api_chart_data(db, table, modules, hub_id, type_param, period_param, now) ==
    LET chart_type == GetOr(type_param, "revenue")
        period == GetOr(period_param, "month")
        dates == _get_date_range(period, now)
        points == chart_points(db, table, modules, hub_id, chart_type,
                               dates.start, dates.end, now)
    IN [done |-> TRUE, view |-> "api_chart_data", hub |-> hub_id,
        labels |-> [i \in 1..Len(points) |-> points[i].label],
        values |-> [i \in 1..Len(points) |-> points[i].value],
        type |-> chart_type, period |-> period, error |-> dates.error]

\* the header rows export_csv writes
SalesHeader ==
    <<"Sale Number", "Date", "Employee", "Customer", "Payment Method", "Subtotal",
      "Tax", "Total", "Status">>

ProductsHeader == <<"Product", "SKU", "Quantity Sold", "Revenue", "Stock", "Price", "Cost">>

CustomersHeader ==
    <<"Name", "Email", "Phone", "Total Purchases", "Total Spent", "Last Purchase">>

\* the rows of a bag, each as often as the bag holds it
RECURSIVE BagToSeq(_, _)
BagToSeq(table, qs) ==
    IF qs = {} THEN <<>>
    ELSE LET sale == CHOOSE x \in qs : TRUE
         IN [i \in 1..table[sale] |-> sale] \o BagToSeq(table, qs \ {sale})

export_rows_products_short(db, table, modules, hub_id, report_type, start_date, end_date) ==
    LET items == SoldItems(db.sale_items, hub_id, start_date, end_date)
        Of(key) == {i \in items : i.product_name = key.name /\ i.product_sku = key.sku}
        groups == {[product_name |-> key.name, product_sku |-> key.sku,
                    total_qty |-> SumOver(Of(key), [i \in Of(key) |-> i.quantity]),
                    total_revenue |-> SumOver(Of(key), [i \in Of(key) |-> i.line_total])] :
                   key \in {[name |-> i.product_name, sku |-> i.product_sku] : i \in items}}
        by_revenue == OrderByDesc(groups, [g \in groups |-> g.total_revenue])
    IN IF report_type = "products" /\ "sales" \in modules
       THEN [i \in 1..Len(by_revenue) |->
                <<by_revenue[i].product_name, by_revenue[i].product_sku,
                  by_revenue[i].total_qty, by_revenue[i].total_revenue>>]
       ELSE <<>>

export_rows_oldest_first(db, table, modules, hub_id, report_type, start_date, end_date) ==
    LET sold == {sale \in DOMAIN table :
                    /\ sale.hub_id = hub_id
                    /\ ~sale.is_deleted
                    /\ Between(sale.created_at, start_date, end_date)}
        oldest_first == SortSeq(BagToSeq(table, sold),
                                LAMBDA a, b : a.created_at * 24 + a.hour
                                                < b.created_at * 24 + b.hour)
    IN IF report_type = "sales" /\ "sales" \in modules
       THEN [i \in 1..Len(oldest_first) |->
                LET sale == oldest_first[i]
                IN <<sale.sale_number, [date |-> IsoDate(sale.created_at), hour |-> sale.hour],
                     IF sale.employee = Absent THEN "" ELSE sale.employee[1],
                     sale.customer_name, sale.payment_method_name, sale.subtotal,
                     sale.tax_amount, sale.total, sale.status>>]
       ELSE <<>>

\* the data rows of the export, after the header
export_rows(db, table, modules, hub_id, report_type, start_date, end_date) ==
    LET sold == {sale \in DOMAIN table :
                    /\ sale.hub_id = hub_id
                    /\ ~sale.is_deleted
                    /\ Between(sale.created_at, start_date, end_date)}
        newest_first == SortSeq(BagToSeq(table, sold),
                                LAMBDA a, b : a.created_at * 24 + a.hour
                                                > b.created_at * 24 + b.hour)
        items == SoldItems(db.sale_items, hub_id, start_date, end_date)
        Of(key) == {i \in items : i.product_name = key.name /\ i.product_sku = key.sku}
        groups == {[product_name |-> key.name, product_sku |-> key.sku,
                    total_qty |-> SumOver(Of(key), [i \in Of(key) |-> i.quantity]),
                    total_revenue |-> SumOver(Of(key), [i \in Of(key) |-> i.line_total])] :
                   key \in {[name |-> i.product_name, sku |-> i.product_sku] : i \in items}}
        by_revenue == OrderByDesc(groups, [g \in groups |-> g.total_revenue])
        customers_qs == Live(db.customers, hub_id)
        by_spent == OrderByDesc(customers_qs, [c \in customers_qs |-> c.total_spent])
    IN IF report_type = "sales" /\ "sales" \in modules
       THEN [i \in 1..Len(newest_first) |->
                LET sale == newest_first[i]
                IN <<sale.sale_number, [date |-> IsoDate(sale.created_at), hour |-> sale.hour],
                     IF sale.employee = Absent THEN "" ELSE sale.employee[1],
                     sale.customer_name, sale.payment_method_name, sale.subtotal,
                     sale.tax_amount, sale.total, sale.status>>]
       ELSE IF report_type = "products" /\ "sales" \in modules
       THEN [i \in 1..Len(by_revenue) |->
                <<by_revenue[i].product_name, by_revenue[i].product_sku,
                  by_revenue[i].total_qty, by_revenue[i].total_revenue, "", "", "">>]
       ELSE IF report_type = "customers" /\ "customers" \in modules
       THEN [i \in 1..Len(by_spent) |->
                <<by_spent[i].name, by_spent[i].email, by_spent[i].phone,
                  by_spent[i].total_purchases, by_spent[i].total_spent,
                  IF by_spent[i].last_purchase_date = Absent THEN <<>>
                  ELSE <<IsoDate(by_spent[i].last_purchase_date[1])>>>>]
       ELSE <<>>

export_header_products_short(report_type) ==
    IF report_type = "sales" THEN <<SalesHeader>>
    ELSE IF report_type = "products" THEN <<SubSeq(ProductsHeader, 1, 4)>>
    ELSE IF report_type = "customers" THEN <<CustomersHeader>>
    ELSE <<>>

\* writer.writerow([...]) of the branch of the report type; no row for any
\* other type
export_header(report_type) ==
    IF report_type = "sales" THEN <<SalesHeader>>
    ELSE IF report_type = "products" THEN <<ProductsHeader>>
    ELSE IF report_type = "customers" THEN <<CustomersHeader>>
    ELSE <<>>

\* the response of export_csv: content type, the parts of the file name
\* analytics_{report_type}_{start_date}_{end_date}.csv, and the rows written
export_csv(db, table, modules, hub_id, type_param, period_param, now) ==
    LET report_type == GetOr(type_param, "sales")
        period == GetOr(period_param, "month")
        dates == _get_date_range(period, now)
    IN [done |-> TRUE, view |-> "export_csv", hub |-> hub_id,
        content_type |-> "text/csv",
        filename |-> [prefix |-> "analytics", report_type |-> report_type,
                      start_date |-> IsoDate(dates.start), end_date |-> IsoDate(dates.end),
                      extension |-> "csv"],
        header |-> export_header(report_type),
        body |-> export_rows(db, table, modules, hub_id, report_type,
                             dates.start, dates.end),
        type |-> report_type, period |-> period, error |-> dates.error]

(***************************************************************************)
(* settings_view and the read tools of the assistant                       *)
(***************************************************************************)
\* the context of settings_view: the settings read and the tenant's saved
\* reports, last updated first
settings_view(db, settings, hub_id) ==
    LET mine == Live(db.saved_reports, hub_id)
        newest == OrderByDesc(mine, [r \in mine |-> r.updated_at])
    IN [done |-> TRUE, view |-> "settings_view", hub |-> hub_id, settings |-> settings,
        saved_reports |-> [i \in 1..Len(newest) |-> newest[i].pk], error |-> "none"]

\* SavedReport.objects: the manager leaves out the soft-deleted rows
objects(saved_reports) == {r \in saved_reports : ~r.is_deleted}

\* the arguments of list_saved_reports
NoListArgs == [report_type |-> Absent, is_shared |-> Absent]

\* ListSavedReports.execute: SavedReport.objects.all(), narrowed by the
\* report_type and is_shared arguments, in the model's ordering
ListSavedReports_execute(db, hub_id, args) ==
    LET all == objects(db.saved_reports)
        typed == IF args.report_type # Absent /\ args.report_type[1] # ""
                 THEN {r \in all : r.report_type = args.report_type[1]}
                 ELSE all
        qs == IF args.is_shared # Absent
              THEN {r \in typed : r.is_shared = args.is_shared[1]}
              ELSE typed
        newest == OrderByDesc(qs, [r \in qs |-> r.updated_at])
    IN [done |-> TRUE, view |-> "list_saved_reports", hub |-> hub_id, args |-> args,
        reports |-> [i \in 1..Len(newest) |->
                        [id |-> newest[i].pk, name |-> newest[i].name,
                         report_type |-> newest[i].report_type,
                         is_shared |-> newest[i].is_shared]],
        error |-> "none"]

\* GetAnalyticsSettings.execute: the six settings of the row get_solo returns
GetAnalyticsSettings_execute(settings, hub_id) ==
    [done |-> TRUE, view |-> "get_analytics_settings", hub |-> hub_id,
     default_period |-> settings.default_period,
     default_currency |-> settings.default_currency,
     show_profit |-> settings.show_profit,
     show_tax_breakdown |-> settings.show_tax_breakdown,
     compare_previous_period |-> settings.compare_previous_period,
     fiscal_year_start_month |-> settings.fiscal_year_start_month,
     error |-> "none"]

NoResponse ==
    dashboard_crm(NoData, {}, 0, 0, 0) @@
    [done |-> FALSE, hub |-> 0, settings |-> NoRow, period |-> "",
     start_date |-> 0, end_date |-> 0, prev_start |-> 0, prev_end |-> 0,
     total_revenue |-> 0, total_sales |-> 0, avg_ticket |-> Zero,
     revenue_change |-> NoChange, sales_change |-> NoChange,
     prev_revenue |-> 0, prev_sales |-> 0, error |-> "none"]

\* the parameters of a request: ?type= and ?period=, or the tool's arguments
Request(type_param, period_param) == [type |-> type_param, period |-> period_param]

NoReport == [done |-> FALSE, view |-> "none", request |-> Request(Absent, Absent)]

DashboardIdle ==
    /\ installed = {}
    /\ sales = EmptyBag
    /\ data = NoData
    /\ response = NoResponse
    /\ report = NoReport

(***************************************************************************)
(* Requests                                                                *)
(***************************************************************************)
\* arguments of update_analytics_settings: the five recognised keys and
\* default_currency, which the tool does not read
Args(period, month, profit, tax, compare, currency) ==
    [default_period |-> period, fiscal_year_start_month |-> month,
     show_profit |-> profit, show_tax_breakdown |-> tax,
     compare_previous_period |-> compare, default_currency |-> currency]

NoArgs == Args(Absent, Absent, Absent, Absent, Absent, Absent)

\* no key; one key with a valid or an invalid value; default_currency with a
\* recognised key; all five recognised keys
ToolArgs ==
    {NoArgs,
     [NoArgs EXCEPT !.default_period = Present("week")],
     [NoArgs EXCEPT !.default_period = Present("invalid_period")],
     [NoArgs EXCEPT !.fiscal_year_start_month = Present(4)],
     [NoArgs EXCEPT !.fiscal_year_start_month = Present(13)],
     [NoArgs EXCEPT !.show_profit = Present(FALSE)],
     [NoArgs EXCEPT !.show_tax_breakdown = Present(TRUE)],
     [NoArgs EXCEPT !.compare_previous_period = Present(FALSE)],
     [NoArgs EXCEPT !.default_currency = Present("GBP"), !.default_period = Present("week")],
     Args(Present("year"), Present(12), Present(TRUE), Present(FALSE), Present(TRUE),
          Absent)}

\* POST data of the settings form; a checkbox is checked or not sent
Post(period, currency, profit, tax, compare, month) ==
    [default_period |-> period, default_currency |-> currency,
     show_profit |-> profit, show_tax_breakdown |-> tax,
     compare_previous_period |-> compare, fiscal_year_start_month |-> month]

NoPost == Post(Absent, Absent, FALSE, FALSE, FALSE, Absent)

\* an empty form; the valid and the invalid form of the view tests; a second
\* valid form; forms with one invalid field each
Posts ==
    {NoPost,
     Post(Present("week"), Present("USD"), TRUE, TRUE, FALSE, Present(4)),
     Post(Present("invalid_period"), Absent, FALSE, FALSE, FALSE, Present(13)),
     Post(Present("quarter"), Present("USD"), FALSE, FALSE, TRUE, Present(12)),
     Post(Present("week"), Present("USD"), TRUE, TRUE, FALSE, Present(13)),
     Post(Present("week"), Present("EURO"), TRUE, TRUE, FALSE, Present(4))}

NoLast ==
    [op |-> "none", hub |-> 0, args |-> NoArgs, post |-> NoPost, before |-> NoRow,
     success |-> FALSE, status |-> 0, errors |-> {}, updated_fields |-> <<>>,
     error |-> "none", fault |-> "none", raised |-> FALSE]

Callers == 1..NumCallers

\* a worker between requests; raced records that its INSERT hit the constraint
NoCall == [pc |-> "idle", hub |-> 0, ret |-> 0, raced |-> FALSE]

PeriodIdle ==
    /\ today = FirstDay
    /\ range = [done |-> FALSE, period |-> "", now |-> 0, result |-> Raised("none")]
    /\ window = [start |-> 0, end |-> 0]
    /\ previous = [done |-> FALSE, result |-> Raised("none")]

SettingsIdle ==
    /\ rows = {}
    /\ next_pk = 1
    /\ returned = [h \in Hubs |-> {}]
    /\ updates = 0
    /\ last = NoLast
    /\ calls = [p \in Callers |-> NoCall]

(***************************************************************************)
(* Specification of the period resolver: the clock advances, and a caller  *)
(* resolves a period keyword at the current date.                          *)
(***************************************************************************)
NoRange == [done |-> FALSE, period |-> "", now |-> 0, result |-> Raised("none")]

NoWindow == [start |-> 0, end |-> 0]

NoPrevious == [done |-> FALSE, result |-> Raised("none")]

InitPeriod ==
    /\ today \in Days
    /\ range = NoRange
    /\ window = NoWindow
    /\ previous = NoPrevious
    /\ SettingsIdle
    /\ DashboardIdle

\* the clock passes midnight; the pair returned by an earlier call is gone
Tick ==
    /\ today < LastDay
    /\ today' = today + 1
    /\ range' = NoRange
    /\ UNCHANGED <<window, previous, settingsVars, dashboardVars>>

GetDateRange ==
    \E period \in PeriodStrings :
        /\ range' = [done |-> TRUE, period |-> period, now |-> today,
                     result |-> _get_date_range(period, today)]
        /\ UNCHANGED <<today, window, previous, settingsVars, dashboardVars>>

NextPeriod == Tick \/ GetDateRange

SpecPeriod == InitPeriod /\ [][NextPeriod]_vars

(***************************************************************************)
(* Specification of the comparison period: a window start <= end is drawn  *)
(* and _get_previous_date_range is applied to it.                          *)
(***************************************************************************)
Windows ==
    {w \in [start : Days, end : Days] :
        w.start <= w.end /\ w.end - w.start <= MaxWindowDays}

InitPrevious ==
    /\ today = FirstDay
    /\ range = NoRange
    /\ window \in Windows
    /\ previous = NoPrevious
    /\ SettingsIdle
    /\ DashboardIdle

GetPreviousDateRange ==
    /\ ~previous.done
    /\ previous' = [done |-> TRUE,
                    result |-> _get_previous_date_range(window.start, window.end)]
    /\ UNCHANGED <<today, range, window, settingsVars, dashboardVars>>

NextPrevious == GetPreviousDateRange

SpecPrevious == InitPrevious /\ [][NextPrevious]_vars

(***************************************************************************)
(* Specification of the settings store: requests are served one at a time; *)
(* every view reads the settings with get_settings, the form endpoint and  *)
(* the tool update them.                                                   *)
(***************************************************************************)
Init ==
    /\ PeriodIdle
    /\ SettingsIdle
    /\ DashboardIdle

\* a view (dashboard, a report, settings_view) reads the tenant's settings
GetSettings(hub_id) ==
    LET got == get_settings(rows, next_pk, hub_id)
    IN /\ rows' = got.rows
       /\ next_pk' = got.next_pk
       /\ returned' = [returned EXCEPT ![hub_id] = @ \cup {got.settings.pk}]
       /\ last' = [NoLast EXCEPT !.op = "get_settings", !.hub = hub_id,
                                 !.before = got.settings, !.success = got.error = "none",
                                 !.error = got.error]
       /\ UNCHANGED <<updates, calls, periodVars, dashboardVars>>

SettingsSave(hub_id, post) ==
    LET res == settings_save(rows, next_pk, hub_id, post)
    IN /\ updates < MaxUpdates
       /\ updates' = updates + 1
       /\ rows' = res.rows
       /\ next_pk' = res.next_pk
       /\ returned' = [returned EXCEPT ![hub_id] = @ \cup {res.settings.pk}]
       /\ last' = [NoLast EXCEPT !.op = "settings_save", !.hub = hub_id,
                                 !.post = post, !.before = res.settings,
                                 !.success = res.success, !.status = res.status,
                                 !.errors = res.errors, !.error = res.error]
       /\ UNCHANGED <<calls, periodVars, dashboardVars>>

UpdateAnalyticsSettings(hub_id, args) ==
    LET res == UpdateAnalyticsSettings_execute(rows, next_pk, hub_id, args)
    IN /\ updates < MaxUpdates
       /\ updates' = updates + 1
       /\ rows' = res.rows
       /\ next_pk' = res.next_pk
       /\ returned' = [returned EXCEPT ![hub_id] = @ \cup {res.settings.pk}]
       /\ last' = [NoLast EXCEPT !.op = "update_analytics_settings", !.hub = hub_id,
                                 !.args = args, !.before = res.settings,
                                 !.success = res.success,
                                 !.updated_fields = res.updated_fields,
                                 !.error = res.error]
       /\ UNCHANGED <<calls, periodVars, dashboardVars>>

\* the form endpoint while the database may fail under one of its calls
SettingsSaveUnder(hub_id, post, fault) ==
    LET res == settings_save_under(rows, next_pk, hub_id, post, fault)
    IN /\ updates < MaxUpdates
       /\ updates' = updates + 1
       /\ rows' = res.rows
       /\ next_pk' = res.next_pk
       /\ returned' = IF res.settings = NoRow THEN returned
                      ELSE [returned EXCEPT ![hub_id] = @ \cup {res.settings.pk}]
       /\ last' = [NoLast EXCEPT !.op = "settings_save", !.hub = hub_id,
                                 !.post = post, !.before = res.settings,
                                 !.success = res.success, !.status = res.status,
                                 !.errors = res.errors, !.error = res.error,
                                 !.fault = fault, !.raised = res.raised]
       /\ UNCHANGED <<calls, periodVars, dashboardVars>>

Next ==
    \/ \E hub_id \in Hubs : GetSettings(hub_id)
    \/ \E hub_id \in Hubs, post \in Posts : SettingsSave(hub_id, post)
    \/ \E hub_id \in Hubs, args \in ToolArgs : UpdateAnalyticsSettings(hub_id, args)

Spec == Init /\ [][Next]_vars

(***************************************************************************)
(* Specification of the form endpoint under failures: views read the       *)
(* settings and the form is posted while any call of settings_save may     *)
(* raise.                                                                  *)
(***************************************************************************)
NextSave ==
    \/ \E hub_id \in Hubs : GetSettings(hub_id)
    \/ \E hub_id \in Hubs, post \in Posts, fault \in Faults :
            SettingsSaveUnder(hub_id, post, fault)

SpecSave == Init /\ [][NextSave]_vars

(***************************************************************************)
(* Specification of concurrent first access: each request runs the         *)
(* statements of get_or_create(hub_id=hub_id) one at a time, interleaved   *)
(* with the other requests: SELECT, then INSERT when nothing was found,    *)
(* then SELECT again when the INSERT hit the unique constraint.            *)
(***************************************************************************)
InitRace ==
    /\ PeriodIdle
    /\ SettingsIdle
    /\ DashboardIdle

get_step(table, hub_id) ==
    IF RowsOf(table, hub_id) # {}
    THEN [pc |-> "done", hub |-> hub_id,
          ret |-> (CHOOSE r \in RowsOf(table, hub_id) : TRUE).pk, raced |-> FALSE]
    ELSE [pc |-> "create", hub |-> hub_id, ret |-> 0, raced |-> FALSE]

create_step_propagates(table, pk, hub_id) ==
    IF UniqueViolation(table, hub_id)
    THEN [pc |-> "failed", hub |-> hub_id, ret |-> 0, raced |-> TRUE]
    ELSE [pc |-> "done", hub |-> hub_id, ret |-> pk, raced |-> FALSE]

\* the INSERT: the new row, or IntegrityError caught and the row read again
create_step(table, pk, hub_id) ==
    IF UniqueViolation(table, hub_id)
    THEN [pc |-> "get_again", hub |-> hub_id, ret |-> 0, raced |-> TRUE]
    ELSE [pc |-> "done", hub |-> hub_id, ret |-> pk, raced |-> FALSE]

\* the second SELECT; the IntegrityError is raised again when it finds nothing
get_again_step(table, hub_id) ==
    IF RowsOf(table, hub_id) # {}
    THEN [pc |-> "done", hub |-> hub_id,
          ret |-> (CHOOSE r \in RowsOf(table, hub_id) : TRUE).pk, raced |-> TRUE]
    ELSE [pc |-> "failed", hub |-> hub_id, ret |-> 0, raced |-> TRUE]

Returns(p, call) ==
    returned' = IF call.pc = "done"
                THEN [returned EXCEPT ![call.hub] = @ \cup {call.ret}]
                ELSE returned

Call(p, hub_id) ==
    /\ calls[p].pc = "idle"
    /\ calls' = [calls EXCEPT ![p] = [pc |-> "get", hub |-> hub_id, ret |-> 0, raced |-> FALSE]]
    /\ UNCHANGED <<rows, next_pk, returned, updates, last, periodVars, dashboardVars>>

Get(p) ==
    /\ calls[p].pc = "get"
    /\ LET call == get_step(rows, calls[p].hub)
       IN /\ calls' = [calls EXCEPT ![p] = call]
          /\ Returns(p, call)
    /\ UNCHANGED <<rows, next_pk, updates, last, periodVars, dashboardVars>>

Create(p) ==
    /\ calls[p].pc = "create"
    /\ LET call == create_step(rows, next_pk, calls[p].hub)
       IN /\ calls' = [calls EXCEPT ![p] = call]
          /\ Returns(p, call)
          /\ IF call.pc = "done"
             THEN /\ rows' = rows \cup {DefaultRow(next_pk, calls[p].hub)}
                  /\ next_pk' = next_pk + 1
             ELSE UNCHANGED <<rows, next_pk>>
    /\ UNCHANGED <<updates, last, periodVars, dashboardVars>>

GetAgain(p) ==
    /\ calls[p].pc = "get_again"
    /\ LET call == get_again_step(rows, calls[p].hub)
       IN /\ calls' = [calls EXCEPT ![p] = call]
          /\ Returns(p, call)
    /\ UNCHANGED <<rows, next_pk, updates, last, periodVars, dashboardVars>>

\* the request is over; the next one of this worker may start
Finish(p) ==
    /\ calls[p].pc = "done"
    /\ calls' = [calls EXCEPT ![p] = NoCall]
    /\ UNCHANGED <<rows, next_pk, returned, updates, last, periodVars, dashboardVars>>

NextRace ==
    \/ \E p \in Callers, hub_id \in Hubs : Call(p, hub_id)
    \/ \E p \in Callers : Get(p)
    \/ \E p \in Callers : Create(p)
    \/ \E p \in Callers : GetAgain(p)
    \/ \E p \in Callers : Finish(p)

SpecRace == InitRace /\ [][NextRace]_vars

(***************************************************************************)
(* Specification of the dashboard: on a given day, with the sales module   *)
(* installed or not, the Sale table as the sales module filled it and the  *)
(* tenants' settings as earlier updates left them, a tenant requests the   *)
(* dashboard.                                                              *)
(***************************************************************************)
\* 2 October of the second year, a Wednesday: the week began two days and the
\* month one day before
DashboardDay == Ymd2Ord(FirstYear + 1, 10, 2)

\* amounts are in cents
SaleTotals == {0, 5000}

SaleDates == {DashboardDay, DashboardDay - 1, DashboardDay - 2}

\* a sale that counts, one that is not completed, one that is soft-deleted
SaleStates ==
    {[status |-> "completed", is_deleted |-> FALSE],
     [status |-> "pending", is_deleted |-> FALSE],
     [status |-> "completed", is_deleted |-> TRUE]}

Sales ==
    {[hub_id |-> h, created_at |-> d, total |-> t,
      status |-> k.status, is_deleted |-> k.is_deleted] :
        h \in Hubs, d \in SaleDates, t \in SaleTotals, k \in SaleStates}

\* the Sale tables of at most n rows
RECURSIVE SaleTables(_)
SaleTables(n) ==
    IF n = 0 THEN {EmptyBag}
    ELSE LET smaller == SaleTables(n - 1)
         IN smaller \cup {table (+) SetToBag({sale}) : table \in smaller, sale \in Sales}

\* the settings table before the first request: empty, or every tenant's row
\* with the comparison switched off or a default period set
SettingsTables ==
    {{},
     {[DefaultRow(h, h) EXCEPT !.compare_previous_period = FALSE] : h \in Hubs},
     {[DefaultRow(h, h) EXCEPT !.default_period = "today"] : h \in Hubs}}

InitDashboard ==
    /\ today = DashboardDay
    /\ range = NoRange
    /\ window = NoWindow
    /\ previous = NoPrevious
    /\ rows \in SettingsTables
    /\ next_pk = NumHubs + 1
    /\ returned = [h \in Hubs |-> {r.pk : r \in RowsOf(rows, h)}]
    /\ updates = 0
    /\ last = NoLast
    /\ calls = [p \in Callers |-> NoCall]
    /\ \/ installed = {} /\ sales = EmptyBag
       \/ installed = {"sales"} /\ sales \in SaleTables(MaxSales)
    /\ data = NoData
    /\ response = NoResponse
    /\ report = NoReport

Dashboard(hub_id, period_param) ==
    LET got == get_settings(rows, next_pk, hub_id)
    IN /\ ~response.done
       /\ ~report.done
       /\ rows' = got.rows
       /\ next_pk' = got.next_pk
       /\ returned' = [returned EXCEPT ![hub_id] = @ \cup {got.settings.pk}]
       /\ response' = dashboard(data, sales, installed, got.settings, hub_id,
                                 period_param, today)
       /\ UNCHANGED <<installed, sales, data, report, updates, last, calls, periodVars>>

NextDashboard ==
    \E hub_id \in Hubs, period_param \in {Absent, Present("today"), Present("month")} :
        Dashboard(hub_id, period_param)

SpecDashboard == InitDashboard /\ [][NextDashboard]_vars

(***************************************************************************)
(* Specification of the reports: on a given day, with any set of the       *)
(* optional modules installed and their tables empty or filled for two     *)
(* tenants, a tenant requests the dashboard, a report, a chart, an export, *)
(* the settings page or a read tool of the assistant.                      *)
(***************************************************************************)
\* the module each table belongs to; the tables of this module are always
\* there
ModuleOf ==
    [t \in TableNames |->
        IF t \in {"sale_items", "payment_methods"} THEN "sales"
        ELSE IF t = "customers" THEN "customers"
        ELSE IF t = "products" THEN "inventory"
        ELSE IF t \in {"leads", "pipelines", "stages"} THEN "leads"
        ELSE IF t = "quotes" THEN "quotes"
        ELSE IF t = "tickets" THEN "support"
        ELSE IF t = "feedback" THEN "feedback"
        ELSE IF t \in {"members", "tiers", "points"} THEN "loyalty"
        ELSE IF t = "segments" THEN "segments"
        ELSE "analytics"]

\* the columns every row has
Row(pk, hub_id) == [pk |-> pk, hub_id |-> hub_id, is_deleted |-> FALSE]

\* a row of the Sale table with the columns the sales report and the export
\* read
SaleRow(hub_id, day, hour, total, status, employee) ==
    [hub_id |-> hub_id, created_at |-> day, total |-> total, status |-> status,
     is_deleted |-> FALSE, hour |-> hour, tax_amount |-> total \div 10,
     subtotal |-> total - (total \div 10), employee |-> employee, payment_method |-> hub_id,
     sale_number |-> day * 100 + hour, customer_name |-> "", payment_method_name |-> "Cash"]

\* two sales of tenant 1 at the same hour of consecutive days, a pending and
\* a soft-deleted one, and a sale of tenant 2
SampleSales ==
    SetToBag({SaleRow(1, DashboardDay, 9, 5000, "completed", Present("Ana")),
              SaleRow(1, DashboardDay - 1, 9, 3000, "completed", Absent),
              SaleRow(1, DashboardDay, 23, 1000, "pending", Absent),
              [SaleRow(1, DashboardDay, 12, 2000, "completed", Absent)
                  EXCEPT !.is_deleted = TRUE],
              SaleRow(2, DashboardDay, 0, 7000, "completed", Present("Bo"))})

SampleData ==
    [sale_items |->
        {Row(1, 1) @@ [sale_status |-> "completed", sale_created_at |-> DashboardDay,
                       product_name |-> "Coffee", product_sku |-> "C1", quantity |-> 2,
                       line_total |-> 5000],
         Row(2, 1) @@ [sale_status |-> "completed", sale_created_at |-> DashboardDay - 1,
                       product_name |-> "Tea", product_sku |-> "T1", quantity |-> 1,
                       line_total |-> 3000],
         Row(3, 2) @@ [sale_status |-> "completed", sale_created_at |-> DashboardDay,
                       product_name |-> "Coffee", product_sku |-> "C1", quantity |-> 1,
                       line_total |-> 7000]},
     payment_methods |->
        {Row(1, 1) @@ [is_active |-> TRUE, name |-> "Cash"],
         Row(2, 2) @@ [is_active |-> TRUE, name |-> "Card"]},
     customers |->
        {Row(1, 1) @@ [created_at |-> DashboardDay, last_purchase_date |-> Absent,
                       total_spent |-> 0, total_purchases |-> 0, lifecycle_stage |-> "lead",
                       source |-> "walk_in", name |-> "Cy", email |-> "", phone |-> ""],
         Row(2, 1) @@ [created_at |-> DashboardDay - 40,
                       last_purchase_date |-> Present(DashboardDay),
                       total_spent |-> 8000, total_purchases |-> 3,
                       lifecycle_stage |-> "active", source |-> "referral",
                       name |-> "Di", email |-> "", phone |-> ""],
         Row(3, 2) @@ [created_at |-> DashboardDay,
                       last_purchase_date |-> Present(DashboardDay),
                       total_spent |-> 7000, total_purchases |-> 1,
                       lifecycle_stage |-> "active", source |-> "walk_in",
                       name |-> "Ed", email |-> "", phone |-> ""]},
     products |->
        {Row(1, 1) @@ [is_active |-> TRUE, stock |-> 1, low_stock_threshold |-> 2,
                       price |-> 500, cost |-> 200, name |-> "Coffee"],
         Row(2, 1) @@ [is_active |-> TRUE, stock |-> 10, low_stock_threshold |-> 2,
                       price |-> 300, cost |-> 0, name |-> "Tea"],
         Row(3, 2) @@ [is_active |-> TRUE, stock |-> 0, low_stock_threshold |-> 2,
                       price |-> 700, cost |-> 100, name |-> "Coffee"]},
     leads |->
        {Row(1, 1) @@ [status |-> "open", value |-> 10000, created_at |-> DashboardDay,
                       won_date |-> Absent, lost_date |-> Absent, stage |-> 1,
                       source |-> "web", loss_reason |-> Absent, position |-> 1],
         Row(2, 1) @@ [status |-> "won", value |-> 4000, created_at |-> DashboardDay - 10,
                       won_date |-> Present(DashboardDay), lost_date |-> Absent, stage |-> 2,
                       source |-> "web", loss_reason |-> Absent, position |-> 2],
         Row(3, 1) @@ [status |-> "lost", value |-> 500, created_at |-> DashboardDay - 50,
                       won_date |-> Absent, lost_date |-> Present(DashboardDay - 1),
                       stage |-> 1, source |-> "fair", loss_reason |-> Present("price"),
                       position |-> 3],
         Row(4, 2) @@ [status |-> "open", value |-> 99, created_at |-> DashboardDay,
                       won_date |-> Absent, lost_date |-> Absent, stage |-> 3,
                       source |-> "web", loss_reason |-> Absent, position |-> 4]},
     pipelines |->
        {Row(1, 1) @@ [is_default |-> TRUE], Row(2, 2) @@ [is_default |-> FALSE]},
     stages |->
        {Row(1, 1) @@ [pipeline |-> 1, order |-> 1, name |-> "New"],
         Row(2, 1) @@ [pipeline |-> 1, order |-> 2, name |-> "Deal"],
         Row(3, 2) @@ [pipeline |-> 2, order |-> 1, name |-> "New"]},
     quotes |->
        {Row(1, 1) @@ [created_at |-> DashboardDay, total |-> 2000, status |-> "accepted"],
         Row(2, 1) @@ [created_at |-> DashboardDay, total |-> 900, status |-> "rejected"],
         Row(3, 2) @@ [created_at |-> DashboardDay, total |-> 50, status |-> "draft"]},
     tickets |->
        {Row(1, 1) @@ [status |-> "open"], Row(2, 1) @@ [status |-> "closed"],
         Row(3, 2) @@ [status |-> "in_progress"]},
     feedback |->
        {Row(1, 1) @@ [form_type |-> "nps_10", score |-> Present(10),
                       created_at |-> DashboardDay],
         Row(2, 1) @@ [form_type |-> "nps_10", score |-> Present(3),
                       created_at |-> DashboardDay - 1],
         Row(3, 1) @@ [form_type |-> "csat", score |-> Present(1),
                       created_at |-> DashboardDay],
         Row(4, 2) @@ [form_type |-> "nps_10", score |-> Present(0),
                       created_at |-> DashboardDay]},
     members |->
        {Row(1, 1) @@ [is_active |-> TRUE, tier |-> 1],
         Row(2, 2) @@ [is_active |-> FALSE, tier |-> 2]},
     tiers |->
        {Row(1, 1) @@ [is_active |-> TRUE, sort_order |-> 1, name |-> "Gold"],
         Row(2, 2) @@ [is_active |-> TRUE, sort_order |-> 1, name |-> "Gold"]},
     points |->
        {Row(1, 1) @@ [transaction_type |-> "earn", points |-> 30,
                       created_at |-> DashboardDay],
         Row(2, 1) @@ [transaction_type |-> "redeem", points |-> 0 - 10,
                       created_at |-> DashboardDay],
         Row(3, 2) @@ [transaction_type |-> "earn", points |-> 5,
                       created_at |-> DashboardDay]},
     segments |->
        {Row(1, 1) @@ [is_active |-> TRUE, customer_count |-> 2, name |-> "Regulars"],
         Row(2, 2) @@ [is_active |-> TRUE, customer_count |-> 1, name |-> "Regulars"]},
     saved_reports |->
        {Row(1, 1) @@ [report_type |-> "sales", is_shared |-> FALSE, name |-> "Weekly",
                       updated_at |-> DashboardDay],
         Row(2, 2) @@ [report_type |-> "sales", is_shared |-> TRUE, name |-> "Monthly",
                       updated_at |-> DashboardDay - 1],
         [Row(3, 1) @@ [report_type |-> "custom", is_shared |-> TRUE, name |-> "Old",
                        updated_at |-> DashboardDay - 2] EXCEPT !.is_deleted = TRUE]},
     snapshots |->
        {Row(1, 1) @@ [report_type |-> "sales", is_stale |-> FALSE]}]

\* the tables as they are with the given modules installed: a module that is
\* not installed has no table
Installed(db, modules) ==
    [t \in TableNames |->
        IF ModuleOf[t] \in modules \cup {"analytics"} THEN db[t] ELSE {}]

ReportPeriods == {Absent, Present("today")}

ChartTypes ==
    {Absent, Present("revenue"), Present("sales_count"), Present("customers"),
     Present("products"), Present("pipeline_by_stage"), Present("lifecycle"),
     Present("nps_trend"), Present("unknown")}

ExportTypes ==
    {Absent, Present("sales"), Present("products"), Present("customers"), Present("unknown")}

ListArgs ==
    {NoListArgs,
     [NoListArgs EXCEPT !.report_type = Present("sales")],
     [NoListArgs EXCEPT !.is_shared = Present(TRUE)]}

InitReports ==
    /\ today = DashboardDay
    /\ range = NoRange
    /\ window = NoWindow
    /\ previous = NoPrevious
    /\ rows \in {{}, {DefaultRow(h, h) : h \in Hubs}}
    /\ next_pk = NumHubs + 1
    /\ returned = [h \in Hubs |-> {r.pk : r \in RowsOf(rows, h)}]
    /\ updates = 0
    /\ last = NoLast
    /\ calls = [p \in Callers |-> NoCall]
    /\ installed \in SUBSET Modules
    /\ \/ sales = EmptyBag /\ data = NoData
       \/ /\ sales = IF "sales" \in installed THEN SampleSales ELSE EmptyBag
          /\ data = Installed(SampleData, installed)
    /\ response = NoResponse
    /\ report = NoReport

\* a view that reads the tenant's settings first and then returns a context
View(hub_id, period_param, Context(_)) ==
    LET got == get_settings(rows, next_pk, hub_id)
    IN /\ ~response.done
       /\ ~report.done
       /\ rows' = got.rows
       /\ next_pk' = got.next_pk
       /\ returned' = [returned EXCEPT ![hub_id] = @ \cup {got.settings.pk}]
       /\ report' = Context(got.settings) @@ [request |-> Request(Absent, period_param)]
       /\ UNCHANGED <<installed, sales, data, response, updates, last, calls, periodVars>>

SalesReport(hub_id, period_param) ==
    View(hub_id, period_param, LAMBDA settings :
        sales_report(data, sales, installed, settings, hub_id, period_param, today))

ProductsReport(hub_id, period_param) ==
    View(hub_id, period_param, LAMBDA settings :
        products_report(data, installed, settings, hub_id, period_param, today))

CustomersReport(hub_id, period_param) ==
    View(hub_id, period_param, LAMBDA settings :
        customers_report(data, installed, settings, hub_id, period_param, today))

PipelineReport(hub_id, period_param) ==
    View(hub_id, period_param, LAMBDA settings :
        pipeline_report(data, installed, settings, hub_id, period_param, today))

LoyaltyReport(hub_id, period_param) ==
    View(hub_id, period_param, LAMBDA settings :
        loyalty_report(data, installed, settings, hub_id, period_param, today))

SettingsView(hub_id) ==
    View(hub_id, Absent, LAMBDA settings : settings_view(data, settings, hub_id))

GetAnalyticsSettings(hub_id) ==
    LET got == get_solo(rows, next_pk, hub_id)
    IN /\ ~response.done
       /\ ~report.done
       /\ rows' = got.rows
       /\ next_pk' = got.next_pk
       /\ returned' = [returned EXCEPT ![hub_id] = @ \cup {got.settings.pk}]
       /\ report' = GetAnalyticsSettings_execute(got.settings, hub_id)
                    @@ [request |-> Request(Absent, Absent)]
       /\ UNCHANGED <<installed, sales, data, response, updates, last, calls, periodVars>>

\* a request that does not read the settings
Plain(result, type_param, period_param) ==
    /\ ~response.done
    /\ ~report.done
    /\ report' = result @@ [request |-> Request(type_param, period_param)]
    /\ UNCHANGED <<installed, sales, data, response, settingsVars, periodVars>>

ChartData(hub_id, type_param, period_param) ==
    Plain(api_chart_data(data, sales, installed, hub_id, type_param, period_param, today),
          type_param, period_param)

ExportCsv(hub_id, type_param, period_param) ==
    Plain(export_csv(data, sales, installed, hub_id, type_param, period_param, today),
          type_param, period_param)

ListSavedReports(hub_id, args) ==
    Plain(ListSavedReports_execute(data, hub_id, args), Absent, Absent)

NextReports ==
    \/ \E hub_id \in Hubs, period_param \in ReportPeriods : Dashboard(hub_id, period_param)
    \/ \E hub_id \in Hubs, period_param \in ReportPeriods : SalesReport(hub_id, period_param)
    \/ \E hub_id \in Hubs, period_param \in ReportPeriods : ProductsReport(hub_id, period_param)
    \/ \E hub_id \in Hubs, period_param \in ReportPeriods :
            CustomersReport(hub_id, period_param)
    \/ \E hub_id \in Hubs, period_param \in ReportPeriods : PipelineReport(hub_id, period_param)
    \/ \E hub_id \in Hubs, period_param \in ReportPeriods : LoyaltyReport(hub_id, period_param)
    \/ \E hub_id \in Hubs, type_param \in ChartTypes, period_param \in ReportPeriods :
            ChartData(hub_id, type_param, period_param)
    \/ \E hub_id \in Hubs, type_param \in ExportTypes, period_param \in ReportPeriods :
            ExportCsv(hub_id, type_param, period_param)
    \/ \E hub_id \in Hubs : SettingsView(hub_id)
    \/ \E hub_id \in Hubs : GetAnalyticsSettings(hub_id)
    \/ \E hub_id \in Hubs, args \in ListArgs : ListSavedReports(hub_id, args)

SpecReports == InitReports /\ [][NextReports]_vars

(***************************************************************************)
(* Specification of the NPS: the feedback module with any number of        *)
(* promoters, detractors and passives of tenant 1 in the current month,    *)
(* older responses around six_months_ago or none, and rows the query       *)
(* leaves out; a tenant requests the dashboard, the loyalty report or the  *)
(* nps_trend chart.                                                        *)
(***************************************************************************)
\* a scored response to an nps_10 form
NpsRow(pk, hub_id, score, day) ==
    Row(pk, hub_id) @@ [form_type |-> "nps_10", score |-> Present(score), created_at |-> day]

\* the responses of tenant 1 in the current month: promoters with 9 and 10,
\* detractors with 0 and 6, passives with 7 and 8, on the evaluation date and
\* the day before
MonthResponses(promoters, detractors, passives) ==
    {NpsRow(100 + i, 1, IF i % 2 = 0 THEN 9 ELSE 10, DashboardDay - (i % 2)) :
        i \in 1..promoters}
    \cup {NpsRow(200 + i, 1, IF i % 2 = 0 THEN 6 ELSE 0, DashboardDay) : i \in 1..detractors}
    \cup {NpsRow(300 + i, 1, IF i % 2 = 0 THEN 8 ELSE 7, DashboardDay - 1) : i \in 1..passives}

\* older responses of tenant 1: none, or one in the month of six_months_ago
\* after that day, with one or two more of that month before that day, and
\* with one in the month before the evaluation date
OlderResponses ==
    LET after == NpsRow(403, 1, 7, six_months_ago(DashboardDay) + 5)
        before == NpsRow(401, 1, 10, six_months_ago(DashboardDay) - 2)
        day_before == NpsRow(402, 1, 9, six_months_ago(DashboardDay) - 1)
        last_month == NpsRow(404, 1, 0, DashboardDay - 20)
    IN {{}, {after}, {after, before}, {after, before, day_before},
        {after, before, day_before, last_month}}

\* rows the NPS queries leave out: another tenant's response, a response to
\* another kind of form, a response without a score, a soft-deleted response
OtherResponses ==
    {NpsRow(501, 2, 10, DashboardDay),
     [NpsRow(502, 1, 10, DashboardDay) EXCEPT !.form_type = "csat"],
     [NpsRow(503, 1, 10, DashboardDay) EXCEPT !.score = Absent],
     [NpsRow(504, 1, 10, DashboardDay) EXCEPT !.is_deleted = TRUE]}

NpsPeriods == {Absent, Present("today"), Present("year")}

InitNps ==
    /\ today = DashboardDay
    /\ range = NoRange
    /\ window = NoWindow
    /\ previous = NoPrevious
    /\ rows = {DefaultRow(h, h) : h \in Hubs}
    /\ next_pk = NumHubs + 1
    /\ returned = [h \in Hubs |-> {r.pk : r \in RowsOf(rows, h)}]
    /\ updates = 0
    /\ last = NoLast
    /\ calls = [p \in Callers |-> NoCall]
    /\ installed \in {{}, {"feedback"}}
    /\ sales = EmptyBag
    /\ \E promoters \in 0..MaxPromoters, detractors \in 0..MaxOthers,
          passives \in 0..MaxOthers, older \in OlderResponses :
           data = Installed([NoData EXCEPT !.feedback =
                                MonthResponses(promoters, detractors, passives)
                                \cup older \cup OtherResponses],
                            installed)
    /\ response = NoResponse
    /\ report = NoReport

NextNps ==
    \/ \E hub_id \in Hubs, period_param \in NpsPeriods : Dashboard(hub_id, period_param)
    \/ \E hub_id \in Hubs, period_param \in NpsPeriods : LoyaltyReport(hub_id, period_param)
    \/ \E hub_id \in Hubs, period_param \in NpsPeriods :
            ChartData(hub_id, Present("nps_trend"), period_param)

SpecNps == InitNps /\ [][NextNps]_vars

(***************************************************************************)
(* Specifications of single reports over generated tables. Each starts on  *)
(* the evaluation date with the settings rows given, nothing requested.    *)
(***************************************************************************)
Seeded(table) ==
    /\ today = DashboardDay
    /\ range = NoRange
    /\ window = NoWindow
    /\ previous = NoPrevious
    /\ rows = table
    /\ next_pk = NumHubs + 1
    /\ returned = [h \in Hubs |-> {r.pk : r \in RowsOf(rows, h)}]
    /\ updates = 0
    /\ last = NoLast
    /\ calls = [p \in Callers |-> NoCall]
    /\ response = NoResponse
    /\ report = NoReport

(***************************************************************************)
(* Specification of the products report: tenant 1 sold up to MaxProducts   *)
(* products in the window, each on two sale lines, with revenues that      *)
(* follow the quantities, run against them, or tie; other lines belong to  *)
(* a pending sale, an earlier month, another tenant, or are soft-deleted.  *)
(***************************************************************************)
ProductNames ==
    <<"P01", "P02", "P03", "P04", "P05", "P06", "P07", "P08", "P09", "P10", "P11", "P12",
      "P13">>

\* a line of a sale: SaleItem with its sale's status and date
ItemRow(pk, hub_id, name, quantity, line_total, status, day) ==
    Row(pk, hub_id) @@ [sale_status |-> status, sale_created_at |-> day,
                        product_name |-> name, product_sku |-> name, quantity |-> quantity,
                        line_total |-> line_total]

\* the two lines of each of the first n products
SoldLines(n, pricing) ==
    LET Quantity(i) == IF pricing = "tied" THEN (i % 3) + 1 ELSE i
        Total(i) == IF pricing = "against" THEN (n + 1 - i) * 100
                    ELSE IF pricing = "tied" THEN (i % 2) * 500 + 100
                    ELSE i * 100
    IN {ItemRow(2 * i - 1, 1, ProductNames[i], Quantity(i), Total(i), "completed",
                DashboardDay) : i \in 1..n}
       \cup {ItemRow(2 * i, 1, ProductNames[i], 1, 50, "completed", DashboardDay - 1) :
                i \in 1..n}

\* lines the report leaves out
UnsoldLines ==
    {ItemRow(901, 1, "Pending", 99, 99000, "pending", DashboardDay),
     ItemRow(902, 1, "Earlier", 99, 99000, "completed", DashboardDay - 40),
     ItemRow(903, 2, "Theirs", 99, 99000, "completed", DashboardDay),
     [ItemRow(904, 1, "Deleted", 99, 99000, "completed", DashboardDay)
         EXCEPT !.is_deleted = TRUE]}

InitProducts ==
    /\ Seeded({DefaultRow(h, h) : h \in Hubs})
    /\ installed \in {{}, {"sales"}, {"sales", "inventory"}}
    /\ sales = EmptyBag
    /\ \E n \in 0..MaxProducts, pricing \in {"with", "against", "tied"},
          others \in {{}, UnsoldLines} :
           data = Installed([NoData EXCEPT !.sale_items = SoldLines(n, pricing) \cup others,
                                           !.products = SampleData.products],
                            installed)

NextProducts ==
    \E hub_id \in Hubs, period_param \in ReportPeriods : ProductsReport(hub_id, period_param)

SpecProducts == InitProducts /\ [][NextProducts]_vars

(***************************************************************************)
(* Specification of the customers report: tenant 1 has up to MaxCustomers  *)
(* customers, each created before the month, on its first day or on the    *)
(* evaluation date, with no purchase or a last purchase on one of these    *)
(* days not before its creation, and with lifetime purchase counts taken   *)
(* in turn from the edges of the histogram's buckets.                      *)
(***************************************************************************)
\* the purchase counts at the edges of freq_ranges, and beyond the last
PurchaseCounts == <<0, 1, 2, 5, 6, 10, 11, 20, 21, 99999, 100000>>

\* the creation date of a customer and its last purchase date
CustomerDates ==
    LET days == {DashboardDay - 40, DashboardDay - 1, DashboardDay}
        any == {[created_at |-> created, last_purchase_date |-> bought] :
                   created \in days, bought \in {Absent} \cup {Present(d) : d \in days}}
    IN {k \in any : k.last_purchase_date = Absent
                       \/ k.last_purchase_date[1] >= k.created_at}

CustomerRow(pk, hub_id, dates, purchases) ==
    Row(pk, hub_id) @@ dates @@
    [total_spent |-> purchases * 100, total_purchases |-> purchases,
     lifecycle_stage |-> IF purchases = 0 THEN "lead" ELSE "active",
     source |-> "walk_in", name |-> "Cy", email |-> "", phone |-> ""]

InitCustomers ==
    /\ Seeded({DefaultRow(h, h) : h \in Hubs})
    /\ installed = {"customers"}
    /\ sales = EmptyBag
    /\ \E n \in 0..MaxCustomers, first \in 1..Len(PurchaseCounts) :
       \E dates \in [1..n -> CustomerDates] :
           data = [NoData EXCEPT !.customers =
                      {CustomerRow(k, 1, dates[k],
                                   PurchaseCounts[((first + k - 2) % Len(PurchaseCounts)) + 1]) :
                          k \in 1..n}
                      \cup {CustomerRow(901, 2, [created_at |-> DashboardDay - 40,
                                                 last_purchase_date |->
                                                     Present(DashboardDay)], 3),
                            [CustomerRow(902, 1, [created_at |-> DashboardDay - 40,
                                                  last_purchase_date |->
                                                      Present(DashboardDay)], 3)
                                EXCEPT !.is_deleted = TRUE]}]

NextCustomers ==
    \E hub_id \in Hubs, period_param \in ReportPeriods : CustomersReport(hub_id, period_param)

SpecCustomers == InitCustomers /\ [][NextCustomers]_vars

(***************************************************************************)
(* Specification of the pipeline report: tenant 1 has a few or about a     *)
(* hundred leads won in the months before the current one, returned by the *)
(* table newest or oldest first, and any of: a lead won today, leads lost  *)
(* today and yesterday, leads closed around six_months_ago; next to open,  *)
(* stale, deleted and other tenants' leads, and a few quotes.              *)
(***************************************************************************)
LeadRow(pk, hub_id, status, created, won, lost) ==
    Row(pk, hub_id) @@ [status |-> status, value |-> 100, created_at |-> created,
                        won_date |-> won, lost_date |-> lost, stage |-> 1,
                        source |-> "web", loss_reason |-> Absent, position |-> 0]

\* n won leads, lead 1 the last one won and the slowest to close
WonLeads(n) ==
    {LeadRow(k, 1, "won", DashboardDay - 30 - k - (IF k = 1 THEN 200 ELSE k % 3),
             Present(DashboardDay - 30 - k), Absent) : k \in 1..n}

WonCounts == (0..2) \cup ((MaxWonLeads - 2)..MaxWonLeads)

\* leads closed inside the current month
ClosedThisMonth ==
    {LeadRow(501, 1, "won", DashboardDay - 3, Present(DashboardDay), Absent),
     LeadRow(502, 1, "lost", DashboardDay - 3, Absent, Present(DashboardDay - 1)),
     LeadRow(503, 1, "lost", DashboardDay - 3, Absent, Present(DashboardDay)),
     LeadRow(504, 1, "won", DashboardDay - 8, Present(DashboardDay - 1), Absent)}

\* leads closed in the month of six_months_ago: won and lost before that day,
\* lost after it
ClosedLongAgo ==
    {LeadRow(601, 1, "won", six_months_ago(DashboardDay) - 9,
             Present(six_months_ago(DashboardDay) - 2), Absent),
     LeadRow(602, 1, "lost", six_months_ago(DashboardDay) - 9, Absent,
             Present(six_months_ago(DashboardDay) - 1)),
     LeadRow(603, 1, "lost", six_months_ago(DashboardDay) - 9, Absent,
             Present(six_months_ago(DashboardDay) + 5))}

\* leads the rates and the series leave out: an open lead, a lost lead that
\* still carries a won date, a won lead without one, another tenant's and a
\* soft-deleted lead
OtherLeads ==
    {LeadRow(701, 1, "open", DashboardDay, Absent, Absent),
     LeadRow(702, 1, "lost", DashboardDay - 70, Present(DashboardDay), Absent),
     LeadRow(703, 1, "won", DashboardDay, Absent, Absent),
     LeadRow(704, 2, "won", DashboardDay - 1, Present(DashboardDay), Absent),
     [LeadRow(705, 1, "won", DashboardDay - 1, Present(DashboardDay), Absent)
         EXCEPT !.is_deleted = TRUE]}

\* the table returns its leads latest closed first, or earliest closed first
Positioned(leads, ordering) ==
    {[l EXCEPT !.position =
          LET day == IF l.won_date # Absent THEN l.won_date[1]
                     ELSE IF l.lost_date # Absent THEN l.lost_date[1] ELSE l.created_at
          IN IF ordering = "newest_first" THEN DashboardDay - day ELSE day] : l \in leads}

QuoteRow(pk, hub_id, status, day) ==
    Row(pk, hub_id) @@ [created_at |-> day, total |-> 1000, status |-> status]

\* no quote; undecided quotes only; one accepted; one accepted in three
\* decided, next to a draft, an earlier and another tenant's quote
QuoteTables ==
    {{},
     {QuoteRow(1, 1, "draft", DashboardDay), QuoteRow(2, 1, "sent", DashboardDay)},
     {QuoteRow(1, 1, "accepted", DashboardDay)},
     {QuoteRow(1, 1, "accepted", DashboardDay), QuoteRow(2, 1, "rejected", DashboardDay),
      QuoteRow(3, 1, "rejected", DashboardDay - 1), QuoteRow(4, 1, "draft", DashboardDay),
      QuoteRow(5, 1, "accepted", DashboardDay - 40), QuoteRow(6, 2, "accepted", DashboardDay)}}

\* the long tables of won leads come with every other lead, the short ones
\* with any choice of them
InitPipeline ==
    /\ Seeded({DefaultRow(h, h) : h \in Hubs})
    /\ sales = EmptyBag
    /\ \E n \in WonCounts, ordering \in {"newest_first", "oldest_first"},
          this_month \in SUBSET ClosedThisMonth, long_ago \in {{}, ClosedLongAgo},
          quotes \in QuoteTables :
           /\ installed \in {{"leads"}, {"leads", "quotes"}}
           /\ n > 2 => /\ this_month = ClosedThisMonth
                       /\ long_ago = ClosedLongAgo
                       /\ quotes = {}
                       /\ installed = {"leads"}
           /\ data = Installed([NoData EXCEPT
                                   !.leads = Positioned(WonLeads(n) \cup this_month
                                                        \cup long_ago \cup OtherLeads,
                                                        ordering),
                                   !.quotes = quotes],
                               installed)

NextPipeline ==
    \E hub_id \in Hubs, period_param \in ReportPeriods : PipelineReport(hub_id, period_param)

SpecPipeline == InitPipeline /\ [][NextPipeline]_vars

(***************************************************************************)
(* Specification of the default period: starting without settings, the     *)
(* tenants post the settings form and call the update tool, and a tenant   *)
(* requests the dashboard, a report, the chart data or the export with or  *)
(* without ?period=.                                                       *)
(***************************************************************************)
\* the valid and the invalid form of the view tests
PeriodPosts ==
    {Post(Present("week"), Present("USD"), TRUE, TRUE, FALSE, Present(4)),
     Post(Present("invalid_period"), Absent, FALSE, FALSE, FALSE, Present(13))}

\* the tool called with a recognised and with an unrecognised period
PeriodArgs ==
    {[NoArgs EXCEPT !.default_period = Present("year")],
     [NoArgs EXCEPT !.default_period = Present("invalid_period")]}

\* ?period= left out, recognised, unrecognised
RequestPeriods == {Absent, Present("today"), Present("unknown")}

InitDefaultPeriod ==
    /\ today = DashboardDay
    /\ range = NoRange
    /\ window = NoWindow
    /\ previous = NoPrevious
    /\ SettingsIdle
    /\ DashboardIdle

NextDefaultPeriod ==
    \/ \E hub_id \in Hubs, post \in PeriodPosts : SettingsSave(hub_id, post)
    \/ \E hub_id \in Hubs, args \in PeriodArgs : UpdateAnalyticsSettings(hub_id, args)
    \/ \E hub_id \in Hubs, period_param \in RequestPeriods : Dashboard(hub_id, period_param)
    \/ \E hub_id \in Hubs, period_param \in RequestPeriods : SalesReport(hub_id, period_param)
    \/ \E hub_id \in Hubs, period_param \in RequestPeriods :
            ProductsReport(hub_id, period_param)
    \/ \E hub_id \in Hubs, period_param \in RequestPeriods :
            CustomersReport(hub_id, period_param)
    \/ \E hub_id \in Hubs, period_param \in RequestPeriods :
            PipelineReport(hub_id, period_param)
    \/ \E hub_id \in Hubs, period_param \in RequestPeriods : LoyaltyReport(hub_id, period_param)
    \/ \E hub_id \in Hubs, period_param \in RequestPeriods :
            ChartData(hub_id, Absent, period_param)
    \/ \E hub_id \in Hubs, period_param \in RequestPeriods :
            ExportCsv(hub_id, Absent, period_param)

SpecDefaultPeriod == InitDefaultPeriod /\ [][NextDefaultPeriod]_vars

(***************************************************************************)
(* Specification of the sales figures: the Sale table holds any of a few   *)
(* sales of tenant 1, each once or each twice, next to sales the report    *)
(* leaves out; a tenant requests the sales report or the sales export.     *)
(***************************************************************************)
\* completed sales inside the month: two employees, one without a name and
\* no employee, two days, three hours, one sale of nothing
MonthSales ==
    {SaleRow(1, DashboardDay, 9, 5000, "completed", Present("Ana")),
     SaleRow(1, DashboardDay - 1, 9, 3000, "completed", Absent),
     SaleRow(1, DashboardDay, 14, 3000, "completed", Present("")),
     SaleRow(1, DashboardDay - 1, 14, 1500, "completed", Present("Ana")),
     SaleRow(1, DashboardDay, 0, 0, "completed", Present("Bo"))}

\* a pending sale of the month
PendingSales == {SaleRow(1, DashboardDay, 23, 1000, "pending", Present("Ana"))}

\* an earlier, a soft-deleted and another tenant's sale
OtherSales ==
    {SaleRow(1, DashboardDay - 40, 9, 2000, "completed", Present("Ana")),
     [SaleRow(1, DashboardDay, 12, 2000, "completed", Absent) EXCEPT !.is_deleted = TRUE],
     SaleRow(2, DashboardDay, 9, 7000, "completed", Present("Bo"))}

InitSales ==
    /\ Seeded({DefaultRow(h, h) : h \in Hubs})
    /\ data = NoData
    /\ \/ installed = {} /\ sales = EmptyBag
       \/ /\ installed = {"sales"}
          /\ \E sold \in SUBSET MonthSales, pending \in SUBSET PendingSales,
                others \in {{}, OtherSales}, twice \in BOOLEAN :
                 sales = LET once == SetToBag(sold \cup pending \cup others)
                         IN IF twice THEN once (+) once ELSE once

NextSales ==
    \/ \E hub_id \in Hubs, period_param \in ReportPeriods : SalesReport(hub_id, period_param)
    \/ \E hub_id \in Hubs, period_param \in ReportPeriods :
            ExportCsv(hub_id, Present("sales"), period_param)

SpecSales == InitSales /\ [][NextSales]_vars

(***************************************************************************)
(* Properties of the period resolver                                       *)
(***************************************************************************)
\* C1: whatever the period string and the evaluation date, _get_date_range
\* returns (start, end) with end = the evaluation date and start <= end.
DateRangeEndsToday ==
    range.done =>
        /\ range.result.error = "none"
        /\ range.result.end = range.now
        /\ range.result.start <= range.result.end

DateRangeEndsTodayWitness ==
    /\ range.done
    /\ range.period = "week"
    /\ range.result.start < range.result.end
    /\ range.result.end = range.now

\* C2: the start is the first day of the calendar unit containing the
\* evaluation date: the Monday 0..6 days back for week, day 1 of the month for
\* month, day 1 of the quarter's first month (1, 4, 7, 10) for quarter, and
\* January 1 for year, always in the evaluation date's year.
DateRangeStartsUnit ==
    range.done /\ range.result.error = "none" =>
        LET s == range.result.start
            t == range.now
        IN /\ range.period = "week" =>
                Weekday(s) = 0 /\ t - s \in 0..6
           /\ range.period = "month" =>
                DayOf(s) = 1 /\ MonthOf(s) = MonthOf(t) /\ YearOf(s) = YearOf(t)
           /\ range.period = "quarter" =>
                /\ DayOf(s) = 1
                /\ MonthOf(s) \in {1, 4, 7, 10}
                /\ YearOf(s) = YearOf(t)
                /\ MonthOf(s) <= MonthOf(t)
                /\ MonthOf(t) <= MonthOf(s) + 2
           /\ range.period = "year" =>
                DayOf(s) = 1 /\ MonthOf(s) = 1 /\ YearOf(s) = YearOf(t)

DateRangeStartsUnitWitness ==
    /\ range.done
    /\ range.period = "quarter"
    /\ range.result.error = "none"
    /\ MonthOf(range.now) = 12
    /\ MonthOf(range.result.start) = 10

\* C3: a period string that is not a recognised keyword resolves to exactly
\* the pair that "month" resolves to on the same date, without an error.
UnknownPeriodIsMonth ==
    range.done /\ range.period \notin PERIOD_CHOICES =>
        /\ range.result.error = "none"
        /\ range.result = _get_date_range("month", range.now)
        /\ DayOf(range.result.start) = 1
        /\ MonthOf(range.result.start) = MonthOf(range.now)

UnknownPeriodIsMonthWitness ==
    /\ range.done
    /\ range.period = ""
    /\ DayOf(range.now) > 1
    /\ range.result.start < range.now

\* C4: the comparison window of a window start <= end ends the day before
\* start, has the same length as the window, and is not empty.
PreviousRangeAdjacentEqualLength ==
    previous.done =>
        /\ previous.result.error = "none"
        /\ previous.result.end + 1 = window.start
        /\ previous.result.end - previous.result.start = window.end - window.start
        /\ previous.result.start <= previous.result.end

PreviousRangeAdjacentEqualLengthWitness ==
    /\ previous.done
    /\ window.start < window.end
    /\ previous.result.end = window.start - 1

(***************************************************************************)
(* Properties of the settings store                                        *)
(***************************************************************************)
\* C7: the table holds exactly one row for every tenant whose settings have
\* been read and none for the others; the row once returned for a tenant is
\* still there and is the one every later call returns; different tenants get
\* different rows.
OneSettingsRowPerTenant ==
    /\ \A h \in Hubs :
        /\ returned[h] = {} => RowsOf(rows, h) = {}
        /\ returned[h] # {} =>
            /\ Cardinality(RowsOf(rows, h)) = 1
            /\ returned[h] = {r.pk : r \in RowsOf(rows, h)}
    /\ \A h1, h2 \in Hubs : h1 # h2 => returned[h1] \cap returned[h2] = {}
    /\ last.error = "none"

OneSettingsRowPerTenantWitness ==
    /\ \A h \in Hubs : Cardinality(returned[h]) = 1
    /\ Cardinality(rows) = NumHubs
    /\ updates = MaxUpdates
    /\ last.op = "get_settings"

\* an update that C9 wants rejected: a month outside 1..12 or a period that
\* is not one of the five keywords
InvalidSettings(period, month) ==
    \/ month # Absent /\ month[1] \notin 1..12
    \/ period # Absent /\ period[1] \notin PERIOD_CHOICES

\* C9: an update with a month outside 1..12 or an unrecognised period is a
\* reported failure and leaves the stored row as it was read, whether it
\* comes through settings_save or through update_analytics_settings.
InvalidUpdateRejected ==
    /\ last.op = "settings_save"
       /\ InvalidSettings(last.post.default_period, last.post.fiscal_year_start_month)
       => ~last.success /\ last.status = 400 /\ RowsOf(rows, last.hub) = {last.before}
    /\ last.op = "update_analytics_settings"
       /\ InvalidSettings(last.args.default_period, last.args.fiscal_year_start_month)
       => ~last.success /\ RowsOf(rows, last.hub) = {last.before}

\* C9, the form endpoint alone: settings_save answers an invalid form with
\* status 400 and the errors, and the stored row is as it was read.
SettingsSaveRejectsInvalid ==
    last.op = "settings_save"
    /\ InvalidSettings(last.post.default_period, last.post.fiscal_year_start_month)
    => /\ ~last.success
       /\ last.status = 400
       /\ last.errors # {}
       /\ RowsOf(rows, last.hub) = {last.before}

\* C10: after update_analytics_settings the tenant's row has the value given
\* for every recognised field present in the arguments and its earlier value
\* in every other field, default_currency included; updated_fields lists the
\* present recognised fields, in the order of the tool's list; a read of the
\* settings returns that row.
NarrowUpdateFrame ==
    last.op = "update_analytics_settings" =>
        LET stored == get_settings(rows, next_pk, last.hub).settings
            recognised == {"default_period", "fiscal_year_start_month", "show_profit",
                           "show_tax_breakdown", "compare_previous_period"}
        IN /\ last.success
           /\ RowsOf(rows, last.hub) = {stored}
           /\ \A f \in recognised :
                IF last.args[f] # Absent
                THEN stored[f] = last.args[f][1]
                ELSE stored[f] = last.before[f]
           /\ stored.default_currency = last.before.default_currency
           /\ stored.pk = last.before.pk
           /\ stored.hub_id = last.hub
           /\ last.updated_fields =
                SelectSeq(<<"default_period", "fiscal_year_start_month", "show_profit",
                            "show_tax_breakdown", "compare_previous_period">>,
                          LAMBDA f : last.args[f] # Absent)

NarrowUpdateFrameWitness ==
    /\ last.op = "update_analytics_settings"
    /\ last.args.default_period = Present("week")
    /\ last.args.default_currency = Present("GBP")
    /\ last.before.default_currency = "USD"
    /\ last.before.show_profit = FALSE
    /\ last.updated_fields = <<"default_period">>
    /\ \E r \in rows : /\ r.hub_id = last.hub
                       /\ r.default_period = "week"
                       /\ r.default_currency = "USD"
                       /\ ~r.show_profit

\* C11: settings_save never raises past its boundary: whichever of its calls
\* fails, the response is a failure with status 400 and nothing of the form
\* is stored; success is reported only for a form that validated and was
\* saved, with status 200.
SettingsSaveNeverRaises ==
    last.op = "settings_save" =>
        /\ ~last.raised
        /\ last.status \in {200, 400}
        /\ last.fault # "none" =>
              /\ ~last.success
              /\ last.status = 400
              /\ \A r \in rows : r.pk = last.before.pk => r = last.before
        /\ last.success <=>
              /\ last.status = 200
              /\ last.fault = "none"
              /\ FormErrors(last.post) = {}
              /\ CleanedInstance(last.before, last.post) \in rows

\* saving a valid form failed in form.save(): the response is a failure and
\* the row read is still the stored one
SettingsSaveNeverRaisesWitness ==
    /\ last.op = "settings_save"
    /\ last.fault = "save"
    /\ FormErrors(last.post) = {}
    /\ last.status = 400
    /\ ~last.success
    /\ last.error = "OperationalError"
    /\ last.before \in rows
    /\ last.before.default_currency = "USD"

\* C8: however the statements of concurrent get_settings calls interleave, no
\* call fails, all calls for a tenant return the same primary key, and the
\* tenant has exactly one row once a call has returned (never more than one).
ConcurrentFirstAccess ==
    /\ \A p \in Callers : calls[p].pc # "failed"
    /\ \A h \in Hubs :
        /\ Cardinality(RowsOf(rows, h)) <= 1
        /\ Cardinality(returned[h]) <= 1
        /\ returned[h] # {} => returned[h] = {r.pk : r \in RowsOf(rows, h)}
    /\ \A p \in Callers :
        calls[p].pc = "done" => \E r \in rows : r.pk = calls[p].ret /\ r.hub_id = calls[p].hub

\* two calls raced for a new tenant: both found no row, one inserted it, the
\* other hit the constraint, read again and returned the same row
ConcurrentFirstAccessWitness ==
    \E p, q \in Callers :
        /\ p # q
        /\ calls[p].pc = "done"
        /\ calls[q].pc = "done"
        /\ calls[p].hub = calls[q].hub
        /\ calls[p].ret = calls[q].ret
        /\ ~calls[p].raced
        /\ calls[q].raced
        /\ next_pk = 2
        /\ returned[calls[p].hub] = {calls[p].ret}

(***************************************************************************)
(* Properties of the dashboard                                             *)
(***************************************************************************)
\* C5: revenue_change (sales_change) is None whenever the previous period's
\* revenue (sale count) is 0 or the tenant's compare_previous_period is off;
\* otherwise it is (current - previous) / previous * 100; and no division by
\* zero happens in the request.
PercentChangeNullOnZeroBaseline ==
    response.done =>
        LET compare == response.settings.compare_previous_period
            Change(change, current, prev) ==
                IF prev = 0 \/ ~compare
                THEN change = Absent
                ELSE /\ change # Absent
                     /\ change[1].error = "none"
                     /\ change[1].den > 0
                     /\ change[1].num * prev = (current - prev) * 100 * change[1].den
        IN /\ response.error = "none"
           /\ Change(response.revenue_change, response.total_revenue, response.prev_revenue)
           /\ Change(response.sales_change, response.total_sales, response.prev_sales)

\* the previous day had one sale of total 0 and today one of 50.00: the
\* revenue has no baseline, so revenue_change is None, while sales_change is
\* (1 - 1) / 1 * 100 = 0
PercentChangeNullOnZeroBaselineWitness ==
    /\ response.done
    /\ response.settings.compare_previous_period
    /\ response.prev_sales = 1
    /\ response.prev_revenue = 0
    /\ response.total_revenue = 5000
    /\ response.revenue_change = Absent
    /\ response.sales_change = Present([num |-> 0, den |-> 1, error |-> "none"])

\* C6: avg_ticket is total_revenue / max(total_sales, 1): the revenue divided
\* by the number of sales when there are sales, and exactly 0, without an
\* error, when the window has no completed sale or the sales module is absent.
AvgTicketFloorsDenominator ==
    response.done =>
        /\ response.error = "none"
        /\ response.avg_ticket.error = "none"
        /\ response.avg_ticket.den > 0
        /\ response.total_sales > 0 =>
            response.avg_ticket.num * response.total_sales
                = response.total_revenue * response.avg_ticket.den
        /\ response.total_sales = 0 => response.avg_ticket.num = 0
        /\ "sales" \notin installed =>
            response.avg_ticket.num = 0 /\ response.total_sales = 0

AvgTicketFloorsDenominatorWitness ==
    /\ response.done
    /\ "sales" \in installed
    /\ BagCardinality(sales) > 0
    /\ response.total_sales = 0
    /\ response.avg_ticket = [num |-> 0, den |-> 1, error |-> "none"]

(***************************************************************************)
(* Properties of the export and of the chart data                          *)
(***************************************************************************)
\* C12: for report_type sales, products and customers, export_csv answers
\* text/csv with a file name made of the report type and the resolved start
\* and end dates, and its first row is the type's fixed header (9, 7 and 6
\* columns, in order); when the type's collaborator is not installed or has
\* no matching row, nothing follows the header and no error occurs.
ExportCsvHeaderOnly ==
    report.view = "export_csv" /\ report.type \in {"sales", "products", "customers"} =>
        LET resolved == _get_date_range(GetOr(report.request.period, "month"), today)
            header ==
                IF report.type = "sales"
                THEN <<"Sale Number", "Date", "Employee", "Customer", "Payment Method",
                       "Subtotal", "Tax", "Total", "Status">>
                ELSE IF report.type = "products"
                THEN <<"Product", "SKU", "Quantity Sold", "Revenue", "Stock", "Price",
                       "Cost">>
                ELSE <<"Name", "Email", "Phone", "Total Purchases", "Total Spent",
                       "Last Purchase">>
            collaborator == IF report.type = "customers" THEN "customers" ELSE "sales"
            matching ==
                IF report.type = "sales"
                THEN {sale \in DOMAIN sales :
                         /\ sale.hub_id = report.hub
                         /\ ~sale.is_deleted
                         /\ sale.created_at \in resolved.start..resolved.end}
                ELSE IF report.type = "products"
                THEN {i \in data.sale_items :
                         /\ i.hub_id = report.hub
                         /\ ~i.is_deleted
                         /\ i.sale_status = "completed"
                         /\ i.sale_created_at \in resolved.start..resolved.end}
                ELSE {c \in data.customers : c.hub_id = report.hub /\ ~c.is_deleted}
        IN /\ report.error = "none"
           /\ report.content_type = "text/csv"
           /\ report.type = GetOr(report.request.type, "sales")
           /\ report.filename.report_type = report.type
           /\ report.filename.start_date = IsoDate(resolved.start)
           /\ report.filename.end_date = IsoDate(resolved.end)
           /\ report.header = <<header>>
           /\ Len(report.header[1]) = (IF report.type = "sales" THEN 9
                                       ELSE IF report.type = "products" THEN 7 ELSE 6)
           /\ (collaborator \notin installed \/ matching = {}) => report.body = <<>>
           /\ (collaborator \in installed /\ matching # {}) => report.body # <<>>

\* the products export without the sales module: the seven-column header and
\* no data row
ExportCsvHeaderOnlyWitness ==
    /\ report.view = "export_csv"
    /\ report.request.type = Present("products")
    /\ "sales" \notin installed
    /\ "customers" \in installed
    /\ data.customers # {}
    /\ Len(report.header[1]) = 7
    /\ report.body = <<>>
    /\ report.filename.report_type = "products"

\* C13: api_chart_data returns as many labels as values, echoes the chart
\* type and the period it was asked for (revenue and month when not given),
\* and for a chart type it does not know returns no label and no value; no
\* error occurs.
ChartSeriesParallel ==
    report.view = "api_chart_data" =>
        /\ report.error = "none"
        /\ Len(report.labels) = Len(report.values)
        /\ report.type = GetOr(report.request.type, "revenue")
        /\ report.period = GetOr(report.request.period, "month")
        /\ report.type \notin {"revenue", "sales_count", "customers", "products",
                               "pipeline_by_stage", "lifecycle", "nps_trend"} =>
              report.labels = <<>> /\ report.values = <<>>

\* the sales_count chart of the month for a tenant with sales on two days
ChartSeriesParallelWitness ==
    /\ report.view = "api_chart_data"
    /\ report.request.type = Present("sales_count")
    /\ report.request.period = Absent
    /\ report.type = "sales_count"
    /\ report.period = "month"
    /\ Len(report.labels) = 2
    /\ report.values = <<1, 1>>

(***************************************************************************)
(* Properties of the reports over the optional collaborators               *)
(***************************************************************************)
\* the optional domains each view reads
DomainsRead ==
    [view \in {"dashboard", "sales_report", "products_report", "customers_report",
               "pipeline_report", "loyalty_report"} |->
        IF view = "dashboard"
        THEN {"sales", "customers", "inventory", "leads", "support", "feedback",
              "loyalty", "segments"}
        ELSE IF view = "sales_report" THEN {"sales"}
        ELSE IF view = "products_report" THEN {"sales", "inventory"}
        ELSE IF view = "customers_report" THEN {"customers"}
        ELSE IF view = "pipeline_report" THEN {"leads", "quotes"}
        ELSE {"customers", "loyalty", "feedback", "segments"}]

\* the tenant has no row in any table of the module
NoRowsOf(module, hub_id) ==
    /\ \A t \in TableNames : ModuleOf[t] = module => \A r \in data[t] : r.hub_id # hub_id
    /\ module = "sales" => \A sale \in DOMAIN sales : sale.hub_id # hub_id

\* what the view of the last request returns for the same tenant, parameters
\* and settings over the given tables and modules
ReportOver(db, table, modules) ==
    IF report.view = "sales_report"
    THEN sales_report(db, table, modules, report.settings, report.hub,
                      report.request.period, today)
    ELSE IF report.view = "products_report"
    THEN products_report(db, modules, report.settings, report.hub,
                         report.request.period, today)
    ELSE IF report.view = "customers_report"
    THEN customers_report(db, modules, report.settings, report.hub,
                          report.request.period, today)
    ELSE IF report.view = "pipeline_report"
    THEN pipeline_report(db, modules, report.settings, report.hub,
                         report.request.period, today)
    ELSE IF report.view = "loyalty_report"
    THEN loyalty_report(db, modules, report.settings, report.hub,
                        report.request.period, today)
    ELSE IF report.view = "api_chart_data"
    THEN api_chart_data(db, table, modules, report.hub, report.request.type,
                        report.request.period, today)
    ELSE IF report.view = "export_csv"
    THEN export_csv(db, table, modules, report.hub, report.request.type,
                    report.request.period, today)
    ELSE IF report.view = "settings_view"
    THEN settings_view(db, report.settings, report.hub)
    ELSE IF report.view = "list_saved_reports"
    THEN ListSavedReports_execute(db, report.hub, report.args)
    ELSE report

\* the same with the tables as they are when only the given modules are
\* installed
ReportWith(modules) ==
    ReportOver(Installed(data, modules), IF "sales" \in modules THEN sales ELSE EmptyBag,
               modules)

\* C14: a domain that is installed but has no row for the tenant gives an
\* output that differs from the output with the domain not installed, for
\* the dashboard and for every report and every optional domain it reads.
EmptyDistinguishableFromUnavailable ==
    /\ response.done =>
          \A d \in DomainsRead["dashboard"] \cap installed :
              NoRowsOf(d, response.hub) =>
                  response # dashboard(Installed(data, installed \ {d}),
                                       IF d = "sales" THEN EmptyBag ELSE sales,
                                       installed \ {d}, response.settings, response.hub,
                                       Present(response.period), today)
    /\ report.done /\ report.view \in DOMAIN DomainsRead =>
          \A d \in DomainsRead[report.view] \cap installed :
              NoRowsOf(d, report.hub) =>
                  report # ReportWith(installed \ {d}) @@ [request |-> report.request]

\* the metrics a view takes from a domain, other than the hourly
\* distribution, have the values of no row: counts 0, amounts zero, lists
\* empty
NeutralMetrics(out, view, d) ==
    IF view = "dashboard"
    THEN /\ d = "sales" => /\ out.total_revenue = 0
                           /\ out.total_sales = 0
                           /\ out.avg_ticket = Zero
                           /\ out.prev_revenue = 0
                           /\ out.prev_sales = 0
                           /\ out.top_products = <<>>
         /\ d = "customers" => out.new_customers = 0
         /\ d = "inventory" => out.low_stock_count = 0
         /\ d = "leads" => out.pipeline_value = 0 /\ out.open_leads = 0
         /\ d = "support" => out.open_tickets = 0
    ELSE IF view = "sales_report"
    THEN d = "sales" => /\ out.total_revenue = 0
                        /\ out.total_sales = 0
                        /\ out.total_tax = 0
                        /\ out.revenue_by_day = <<>>
                        /\ out.payment_breakdown = {}
                        /\ out.sales_by_employee = <<>>
    ELSE IF view = "products_report"
    THEN /\ d = "sales" => out.top_sellers = <<>> /\ out.slow_movers = <<>>
         /\ d = "inventory" => /\ out.stock_value = 0
                               /\ out.total_products = 0
                               /\ out.low_stock_count = 0
                               /\ out.margin_data = <<>>
    ELSE IF view = "customers_report"
    THEN d = "customers" => /\ out.total_customers = 0
                            /\ out.new_customers = 0
                            /\ out.returning_customers = 0
                            /\ out.top_spenders = <<>>
                            /\ out.avg_lifetime_value = Zero
                            /\ out.visit_frequency = <<>>
                            /\ out.lifecycle_distribution = <<>>
                            /\ out.source_distribution = <<>>
    ELSE IF view = "pipeline_report"
    THEN /\ d = "leads" => /\ out.pipeline_value = 0
                           /\ out.open_leads = 0
                           /\ out.conversion_rate = 0
                           /\ out.avg_close_days = 0
                           /\ out.pipeline_by_stage = <<>>
                           /\ out.leads_by_source = <<>>
                           /\ out.loss_reasons = <<>>
                           /\ out.won_lost_monthly = <<>>
         /\ d = "quotes" => /\ out.quotes_total = 0
                            /\ out.quotes_value = 0
                            /\ out.quotes_accepted = 0
                            /\ out.quotes_acceptance_rate = 0
    ELSE /\ d = "customers" => /\ out.total_customers = 0
                               /\ out.lifecycle_distribution = <<>>
                               /\ out.source_distribution = <<>>
         /\ d = "loyalty" => /\ out.total_members = 0
                             /\ out.active_members = 0
                             /\ out.tier_distribution = <<>>
                             /\ out.total_points_issued = 0
                             /\ out.total_points_redeemed = 0
         /\ d = "feedback" => out.nps_trend = <<>>
         /\ d = "segments" => out.active_segments = <<>>

\* the availability flags a view returns, by domain
FlagsOf(out, view) ==
    IF view = "dashboard"
    THEN [leads |-> out.has_leads_module, support |-> out.has_support_module,
          feedback |-> out.has_feedback_module, loyalty |-> out.has_loyalty_module,
          segments |-> out.has_segments_module]
    ELSE IF view = "pipeline_report"
    THEN [leads |-> out.has_leads_module, quotes |-> out.has_quotes_module]
    ELSE IF view = "loyalty_report"
    THEN [customers |-> out.has_customers_module, loyalty |-> out.has_loyalty_module,
          feedback |-> out.has_feedback_module, segments |-> out.has_segments_module]
    ELSE <<>>

\* the view completed without error, and for every domain it reads that is
\* not installed or has no row of the tenant: the metrics are neutral and the
\* flag of a domain that is not installed is false
NeutralDefaults(out, view) ==
    /\ out.error = "none"
    /\ \A d \in DomainsRead[view] :
          /\ (d \notin installed \/ NoRowsOf(d, out.hub)) => NeutralMetrics(out, view, d)
          /\ (d \notin installed /\ d \in DOMAIN FlagsOf(out, view)) =>
                ~FlagsOf(out, view)[d]

\* the sales domain is not installed or has no row of the tenant of the last
\* sales report
SalesAbsentOrEmpty ==
    /\ report.done
    /\ report.view = "sales_report"
    /\ "sales" \notin installed \/ NoRowsOf("sales", report.hub)

\* C15 as stated: every report completes without error and every metric of an
\* absent or empty domain is neutral: counts 0, amounts zero, every list
\* empty, the hourly distribution of the sales report included, and the flag
\* of an absent domain false.
NeutralDefaultsListsEmpty ==
    /\ response.done => NeutralDefaults(response, "dashboard")
    /\ report.done /\ report.view \in DOMAIN DomainsRead =>
          NeutralDefaults(report, report.view)
    /\ SalesAbsentOrEmpty => report.hourly_distribution = <<>>

\* C15, amended: every report completes without error and every metric of an
\* absent or empty domain is neutral: counts 0, amounts zero, lists empty and
\* the flag of an absent domain false; the hourly distribution of the sales
\* report is not emptied, every slot it has carries count 0 and revenue 0.
NeutralDefaultsHourlyZero ==
    /\ response.done => NeutralDefaults(response, "dashboard")
    /\ report.done /\ report.view \in DOMAIN DomainsRead =>
          NeutralDefaults(report, report.view)
    /\ SalesAbsentOrEmpty =>
          \A i \in DOMAIN report.hourly_distribution :
              /\ report.hourly_distribution[i].count = 0
              /\ report.hourly_distribution[i].revenue = 0

\* the sales report of a tenant without a sale, the sales module installed:
\* no revenue, no day, and 24 slots
NeutralDefaultsHourlyZeroWitness ==
    /\ SalesAbsentOrEmpty
    /\ "sales" \in installed
    /\ report.total_sales = 0
    /\ report.revenue_by_day = <<>>
    /\ Len(report.hourly_distribution) = 24
    /\ report.error = "none"

\* C19: hourly_distribution of the sales report has 24 entries, the hours
\* 00:00 to 23:00 in ascending order, each with the number and the revenue of
\* the window's completed sales of the tenant at that hour, 0 and 0 for an
\* hour without one; also without any sale and without the sales module.
HourlyDistributionHas24Slots ==
    report.done /\ report.view = "sales_report" =>
        /\ Len(report.hourly_distribution) = 24
        /\ \A i \in DOMAIN report.hourly_distribution :
              LET slot == report.hourly_distribution[i]
                  at == {sale \in DOMAIN sales :
                            /\ "sales" \in installed
                            /\ sale.hub_id = report.hub
                            /\ ~sale.is_deleted
                            /\ sale.status = "completed"
                            /\ sale.created_at \in report.start_date..report.end_date
                            /\ sale.hour = i - 1}
              IN /\ slot.hour = [tens |-> (i - 1) \div 10, ones |-> (i - 1) % 10]
                 /\ slot.count = Cardinality(at)
                 /\ at = {} => slot.count = 0 /\ slot.revenue = 0
                 /\ at # {} => slot.revenue > 0

(***************************************************************************)
(* Properties of the reports over the stores                               *)
(***************************************************************************)
\* this step answers a dashboard, report, chart or export request
ReadRequest ==
    \/ ~response.done /\ response'.done
    \/ /\ ~report.done
       /\ report'.done
       /\ report'.view \in {"sales_report", "products_report", "customers_report",
                            "pipeline_report", "loyalty_report", "api_chart_data",
                            "export_csv"}

\* this step answers a chart or export request
PlainRequest ==
    ~report.done /\ report'.done /\ report'.view \in {"api_chart_data", "export_csv"}

\* the tenant of the request this step answers
RequestHub == IF response'.done THEN response'.hub ELSE report'.hub

\* C16 as stated: a dashboard, report, chart or export request leaves the
\* settings, the saved reports, the snapshots and every other table exactly
\* as they were.
ReadRequestsWriteNothing ==
    [][ReadRequest => rows' = rows /\ data' = data /\ sales' = sales]_vars

\* C16, amended: a dashboard, report, chart or export request leaves the
\* saved reports, the snapshots, every other table and every settings row
\* that exists as they were; a chart or export request leaves the settings
\* table as it was, and a dashboard or report request adds at most one row to
\* it, the default row of the requesting tenant when the tenant had none.
ReadRequestsWriteOnlyLazyDefaults ==
    [][ReadRequest =>
          /\ data' = data
          /\ sales' = sales
          /\ rows \subseteq rows'
          /\ PlainRequest => rows' = rows
          /\ RowsOf(rows, RequestHub) # {} => rows' = rows
          /\ rows' \ rows \subseteq {DefaultRow(next_pk, RequestHub)}]_vars

\* a sales report for a tenant without settings has been answered: the
\* tenant's default row is the only row of the settings table, and the saved
\* reports and snapshots are the sample's
ReadRequestsWriteOnlyLazyDefaultsWitness ==
    /\ report.done
    /\ report.view = "sales_report"
    /\ rows = {DefaultRow(NumHubs + 1, report.hub)}
    /\ data.saved_reports = SampleData.saved_reports
    /\ data.snapshots = SampleData.snapshots

(***************************************************************************)
(* Properties of the reads over the tenants                                *)
(***************************************************************************)
\* the rows of a tenant and nothing else
OfTenant(db, hub_id) == [t \in TableNames |-> {r \in db[t] : r.hub_id = hub_id}]

SalesOfTenant(table, hub_id) ==
    LET mine == {sale \in DOMAIN table : sale.hub_id = hub_id}
    IN [sale \in mine |-> table[sale]]

\* C17: what an operation returns for a tenant is what it returns over that
\* tenant's rows alone, whatever rows the other tenants have: the dashboard,
\* every report, the chart data, the export, the settings page and the
\* list_saved_reports tool; and the settings an operation returns are those
\* of the requesting tenant's row.
TenantScopedReads ==
    /\ response.done =>
          /\ response = dashboard(OfTenant(data, response.hub),
                                  SalesOfTenant(sales, response.hub), installed,
                                  response.settings, response.hub,
                                  Present(response.period), today)
          /\ response.settings \in RowsOf(rows, response.hub)
    /\ report.done =>
          /\ report = ReportOver(OfTenant(data, report.hub),
                                 SalesOfTenant(sales, report.hub), installed)
                      @@ [request |-> report.request]
          /\ "settings" \in DOMAIN report => report.settings \in RowsOf(rows, report.hub)
          /\ report.view = "get_analytics_settings" =>
                \E s \in RowsOf(rows, report.hub) :
                    report = GetAnalyticsSettings_execute(s, report.hub)
                             @@ [request |-> report.request]

(***************************************************************************)
(* Properties of the NPS                                                   *)
(***************************************************************************)
\* the scored, live nps_10 responses of a tenant created from start_date to
\* end_date
ScoredIn(hub_id, start_date, end_date) ==
    {r \in data.feedback : /\ r.hub_id = hub_id
                           /\ ~r.is_deleted
                           /\ r.form_type = "nps_10"
                           /\ r.score # Absent
                           /\ r.created_at \in start_date..end_date}

PromotersIn(responses) == Cardinality({r \in responses : r.score[1] >= 9})

DetractorsIn(responses) == Cardinality({r \in responses : r.score[1] <= 6})

\* the claimed NPS of a set of responses: null for none, otherwise in
\* -100..100 and the rounded share of promoters less detractors
IsNpsOf(nps, responses) ==
    IF responses = {} THEN nps = Absent
    ELSE /\ nps # Absent
         /\ nps[1] \in (0 - 100)..100
         /\ nps[1] = round((PromotersIn(responses) - DetractorsIn(responses)) * 100,
                           Cardinality(responses))

\* C18: avg_nps of the dashboard and of the loyalty report is null when the
\* window has no scored NPS response, and otherwise
\* round((promoters - detractors) / total * 100) over the window's responses,
\* between -100 and 100; for the same tenant and window the two views give
\* the same value.
NpsOfWindow ==
    /\ response.done =>
          /\ IsNpsOf(response.avg_nps,
                     ScoredIn(response.hub, response.start_date, response.end_date))
          /\ response.avg_nps =
                loyalty_report(data, installed, response.settings, response.hub,
                               Present(response.period), today).avg_nps
    /\ report.done /\ report.view = "loyalty_report" =>
          /\ IsNpsOf(report.avg_nps,
                     ScoredIn(report.hub, report.start_date, report.end_date))
          /\ report.avg_nps =
                dashboard(data, sales, installed, report.settings, report.hub,
                          Present(report.period), today).avg_nps

\* the dashboard of the month with 6 promoters, 2 detractors and 2 passives
\* in the window: 40
NpsOfWindowWitness ==
    /\ response.done
    /\ response.period = "month"
    /\ LET responses == ScoredIn(response.hub, response.start_date, response.end_date)
       IN /\ Cardinality(responses) = 10
          /\ PromotersIn(responses) = 6
          /\ DetractorsIn(responses) = 2
    /\ response.avg_nps = Present(40)

\* C20: every entry of the loyalty report's nps_trend is
\* round((promoters - detractors) / responses * 100) over the responses the
\* entry counts, those of its month since six_months_ago, so it lies between
\* -100 and 100; and the nps_trend chart returns the same months and values.
NpsTrendOverOneSet ==
    report.done /\ report.view = "loyalty_report" =>
        LET chart == api_chart_data(data, sales, installed, report.hub,
                                    Present("nps_trend"), report.request.period, today)
            counted ==
                ScoredIn(report.hub, six_months_ago(today), today)
        IN /\ \A i \in DOMAIN report.nps_trend :
                 LET entry == report.nps_trend[i]
                     of_month == {r \in counted :
                                     MonthLabel(TruncMonth(r.created_at)) = entry.month}
                 IN /\ entry.responses = Cardinality(of_month)
                    /\ IsNpsOf(Present(entry.nps), of_month)
           /\ chart.labels = [i \in DOMAIN report.nps_trend |-> report.nps_trend[i].month]
           /\ chart.values = [i \in DOMAIN report.nps_trend |-> report.nps_trend[i].nps]

(***************************************************************************)
(* Properties of the products report                                       *)
(***************************************************************************)
\* the lines of the tenant's completed sales of the report's window
LinesSold ==
    {i \in data.sale_items : /\ "sales" \in installed
                             /\ i.hub_id = report.hub
                             /\ ~i.is_deleted
                             /\ i.sale_status = "completed"
                             /\ i.sale_created_at \in report.start_date..report.end_date}

\* the products with a line sold, by name and SKU
ProductsSold == {<<i.product_name, i.product_sku>> : i \in LinesSold}

QuantitySold(product) ==
    SumOver({i \in LinesSold : <<i.product_name, i.product_sku>> = product},
            [i \in LinesSold |-> i.quantity])

RevenueSold(product) ==
    SumOver({i \in LinesSold : <<i.product_name, i.product_sku>> = product},
            [i \in LinesSold |-> i.line_total])

\* a list of the report holds min(10, products sold) different products with
\* a line sold, each with its quantity and its revenue
RanksProductsSold(list) ==
    /\ Len(list) = IF Cardinality(ProductsSold) < 10 THEN Cardinality(ProductsSold) ELSE 10
    /\ \A i \in DOMAIN list :
          LET product == <<list[i].product_name, list[i].product_sku>>
          IN /\ product \in ProductsSold
             /\ list[i].total_qty = QuantitySold(product)
             /\ list[i].total_revenue = RevenueSold(product)
    /\ \A i, j \in DOMAIN list :
          i # j => <<list[i].product_name, list[i].product_sku>>
                       # <<list[j].product_name, list[j].product_sku>>

\* the products a list leaves out
LeftOut(list) ==
    ProductsSold \ {<<list[i].product_name, list[i].product_sku>> : i \in DOMAIN list}

\* slow_movers: the products sold with the lowest quantity, lowest first
SlowMoversByQuantity ==
    LET slow == report.slow_movers
    IN /\ RanksProductsSold(slow)
       /\ \A i, j \in DOMAIN slow : i < j => slow[i].total_qty <= slow[j].total_qty
       /\ \A product \in LeftOut(slow), i \in DOMAIN slow :
             QuantitySold(product) >= slow[i].total_qty

\* C21 as stated: top_sellers are the at most 10 products with the highest
\* quantity sold in the window, highest quantity first; slow_movers the at
\* most 10 with the lowest quantity among the products sold; a product
\* without a sale in the window is in neither list.
TopSellersByQuantity ==
    report.done /\ report.view = "products_report" =>
        LET top == report.top_sellers
        IN /\ RanksProductsSold(top)
           /\ \A i, j \in DOMAIN top : i < j => top[i].total_qty >= top[j].total_qty
           /\ \A product \in LeftOut(top), i \in DOMAIN top :
                 QuantitySold(product) <= top[i].total_qty
           /\ SlowMoversByQuantity

\* C21, amended: top_sellers are the at most 10 products with the highest
\* revenue in the window, highest revenue first; slow_movers the at most 10
\* with the lowest quantity among the products sold; a product without a
\* sale in the window is in neither list.
TopSellersByRevenue ==
    report.done /\ report.view = "products_report" =>
        LET top == report.top_sellers
        IN /\ RanksProductsSold(top)
           /\ \A i, j \in DOMAIN top : i < j => top[i].total_revenue >= top[j].total_revenue
           /\ \A product \in LeftOut(top), i \in DOMAIN top :
                 RevenueSold(product) <= top[i].total_revenue
           /\ SlowMoversByQuantity

\* eleven products sold, revenue running against quantity, next to lines of
\* products not sold in the window: ten in each list, the best seller by
\* revenue first, and it is the one with the lowest quantity
TopSellersByRevenueWitness ==
    /\ report.done
    /\ report.view = "products_report"
    /\ Cardinality(ProductsSold) = 11
    /\ \E i \in data.sale_items : i.product_name = "Pending"
    /\ Len(report.top_sellers) = 10
    /\ Len(report.slow_movers) = 10
    /\ report.top_sellers[1].product_name = report.slow_movers[1].product_name

(***************************************************************************)
(* Properties of the customers report                                      *)
(***************************************************************************)
\* the tenant's customers the last report read
CustomersRead ==
    {c \in data.customers : /\ "customers" \in installed
                            /\ c.hub_id = report.hub
                            /\ ~c.is_deleted}

VisitFrequencyPartition ==
    report.done /\ report.view = "customers_report" =>
        LET buckets == <<"1", "2-5", "6-10", "11-20", "20+">>
            BucketOf(n) == IF n = 1 THEN "1"
                           ELSE IF n <= 5 THEN "2-5"
                           ELSE IF n <= 10 THEN "6-10"
                           ELSE IF n <= 20 THEN "11-20"
                           ELSE "20+"
            buyers == {c \in CustomersRead : c.total_purchases >= 1}
            In(label) == {c \in buyers : BucketOf(c.total_purchases) = label}
            listed == SelectSeq(buckets, LAMBDA label : In(label) # {})
            histogram == report.visit_frequency
        IN /\ Len(histogram) = Len(listed)
           /\ \A i \in DOMAIN histogram :
                 /\ histogram[i].range = listed[i]
                 /\ histogram[i].count = Cardinality(In(listed[i]))
                 /\ histogram[i].count > 0
           /\ SumOver(DOMAIN histogram, [i \in DOMAIN histogram |-> histogram[i].count])
                 = Cardinality(buyers)

(***************************************************************************)
(* Properties of the pipeline report                                       *)
(***************************************************************************)
\* the tenant's leads and quotes the last report read
LeadsRead ==
    {l \in data.leads : "leads" \in installed /\ l.hub_id = report.hub /\ ~l.is_deleted}

QuotesRead ==
    {q \in data.quotes : /\ "quotes" \in installed
                         /\ q.hub_id = report.hub
                         /\ ~q.is_deleted
                         /\ q.created_at \in report.start_date..report.end_date}

\* the leads won, and those lost, on a day of the set
WonOn(days) ==
    {l \in LeadsRead : l.status = "won" /\ l.won_date # Absent /\ l.won_date[1] \in days}

LostOn(days) ==
    {l \in LeadsRead : l.status = "lost" /\ l.lost_date # Absent /\ l.lost_date[1] \in days}

\* rate is part / whole as a percentage rounded to the nearest integer, 0 for
\* an empty whole, and lies in 0..100
IsRateOf(rate, part, whole) ==
    /\ rate \in 0..100
    /\ whole = 0 => rate = 0
    /\ whole > 0 => 2 * Abs(rate * whole - part * 100) <= whole

\* C23: conversion_rate is round(won / (won + lost) * 100) over the leads
\* won and the leads lost with their date inside the window, 0 when there is
\* none, and within 0..100; quotes_acceptance_rate is the same over the
\* window's accepted and its accepted or rejected quotes.
RatesOfClosedAndDecided ==
    report.done /\ report.view = "pipeline_report" =>
        LET in_window == report.start_date..report.end_date
            won == Cardinality(WonOn(in_window))
            lost == Cardinality(LostOn(in_window))
            accepted == Cardinality({q \in QuotesRead : q.status = "accepted"})
            rejected == Cardinality({q \in QuotesRead : q.status = "rejected"})
        IN /\ IsRateOf(report.conversion_rate, won, won + lost)
           /\ IsRateOf(report.quotes_acceptance_rate, accepted, accepted + rejected)
           /\ report.quotes_accepted = accepted

\* the report of the month with two leads won and one lost in it, and one
\* quote accepted of three decided: 67 and 33
RatesOfClosedAndDecidedWitness ==
    /\ report.done
    /\ report.view = "pipeline_report"
    /\ Cardinality(WonOn(report.start_date..report.end_date)) = 2
    /\ Cardinality(LostOn(report.start_date..report.end_date)) = 1
    /\ Cardinality({q \in QuotesRead : q.status = "rejected"}) = 2
    /\ report.conversion_rate = 67
    /\ report.quotes_acceptance_rate = 33

\* C24: avg_close_days is the rounded mean of won date - creation date, in
\* days, over the tenant's won leads when there are at most 100 of them and
\* over the 100 most recently won when there are more; 0 without a won lead.
AvgCloseDaysOfMostRecent ==
    report.done /\ report.view = "pipeline_report" =>
        LET won == {l \in LeadsRead : l.status = "won" /\ l.won_date # Absent}
            recent == {l \in won :
                          Cardinality({o \in won : o.won_date[1] > l.won_date[1]}) < 100}
            days == SumOver(recent, [l \in recent |-> l.won_date[1] - l.created_at])
        IN /\ won = {} => report.avg_close_days = 0
           /\ won # {} => /\ Cardinality(recent) <= 100
                          /\ 2 * Abs(report.avg_close_days * Cardinality(recent) - days)
                                <= Cardinality(recent)

LastSetPeriod(hub_id) ==
    IF last.hub # hub_id \/ ~last.success THEN Absent
    ELSE IF last.op = "settings_save" THEN last.post.default_period
    ELSE IF last.op = "update_analytics_settings" THEN last.args.default_period
    ELSE Absent

\* the default_period a request of the tenant finds: the stored one, or that
\* of the row made on first access
StoredPeriod(hub_id) ==
    IF RowsOf(rows, hub_id) = {} THEN "month"
    ELSE (CHOOSE r \in RowsOf(rows, hub_id) : TRUE).default_period

\* the window of a period on the evaluation date, an unrecognised period
\* taken as the month
WindowOf(period) ==
    LET first == Ymd2Ord(YearOf(today), MonthOf(today), 1)
    IN CASE period = "today" -> [start |-> today, end |-> today]
         [] period = "week" -> [start |-> today - Weekday(today), end |-> today]
         [] period = "year" -> [start |-> Ymd2Ord(YearOf(today), 1, 1), end |-> today]
         [] period = "quarter" ->
                [start |-> Ymd2Ord(YearOf(today), ((MonthOf(today) - 1) \div 3) * 3 + 1, 1),
                 end |-> today]
         [] OTHER -> [start |-> first, end |-> today]

\* context is the answer to a request resolved with the period
ResolvedFrom(context, period) ==
    /\ context.period = period
    /\ context.start_date = WindowOf(period).start
    /\ context.end_date = WindowOf(period).end

\* C26: once an update has set a tenant's default_period to P, a request of
\* the tenant for the dashboard or a report without ?period= is resolved
\* from P, and from the stored default_period whatever request stored it;
\* with ?period= it is resolved from the parameter; an unrecognised period,
\* stored or requested, gives the month's window; the chart data and the
\* export use the parameter or 'month', whatever the settings are.
DefaultPeriodGovernsReports ==
    [][/\ ~response.done /\ response'.done =>
            \A period_param \in RequestPeriods :
                Dashboard(response'.hub, period_param) =>
                    LET set == LastSetPeriod(response'.hub)
                    IN /\ ResolvedFrom(response',
                                       IF period_param = Absent
                                       THEN StoredPeriod(response'.hub)
                                       ELSE period_param[1])
                       /\ period_param = Absent /\ set # Absent =>
                              response'.period = set[1]
       /\ ~report.done /\ report'.done =>
            LET period_param == report'.request.period
                set == LastSetPeriod(report'.hub)
            IN /\ report'.view \in {"sales_report", "products_report", "customers_report",
                                    "pipeline_report", "loyalty_report"} =>
                    /\ ResolvedFrom(report',
                                    IF period_param = Absent THEN StoredPeriod(report'.hub)
                                    ELSE period_param[1])
                    /\ period_param = Absent /\ set # Absent => report'.period = set[1]
               /\ report'.view \in {"api_chart_data", "export_csv"} =>
                    report'.period = GetOr(period_param, "month")
               /\ report'.view = "export_csv" =>
                    /\ report'.filename.start_date
                          = IsoDate(WindowOf(GetOr(period_param, "month")).start)
                    /\ report'.filename.end_date = IsoDate(today)]_vars

\* a report without ?period= after the tool set the tenant's default_period
\* to 'year': its window starts on 1 January
DefaultPeriodGovernsReportsWitness ==
    /\ updates = 1
    /\ LastSetPeriod(1) = Present("year")
    /\ report.done
    /\ report.view = "sales_report"
    /\ report.hub = 1
    /\ report.request.period = Absent
    /\ report.period = "year"
    /\ report.start_date = Ymd2Ord(YearOf(today), 1, 1)

(***************************************************************************)
(* Properties of the sales figures                                         *)
(***************************************************************************)
\* the sum of a field over the entries of a list
RECURSIVE SumOfEntries(_, _)
SumOfEntries(entries, field) ==
    IF entries = <<>> THEN 0
    ELSE Head(entries)[field] + SumOfEntries(Tail(entries), field)

\* C27: in a sales report computed with the sales module present, the
\* counts of revenue_by_day, of sales_by_employee and of hourly_distribution
\* each add up to total_sales, and their revenues each add up to
\* total_revenue.
SalesBreakdownsAddUp ==
    report.done /\ report.view = "sales_report" /\ "sales" \in installed =>
        \A list \in {report.revenue_by_day, report.sales_by_employee,
                     report.hourly_distribution} :
            /\ SumOfEntries(list, "count") = report.total_sales
            /\ SumOfEntries(list, "revenue") = report.total_revenue

\* a report over several days, hours and employees, two of them shown as
\* 'Unknown' with the same figures, and every sale recorded twice
SalesBreakdownsAddUpWitness ==
    /\ report.done
    /\ report.view = "sales_report"
    /\ "sales" \in installed
    /\ report.total_sales = 10
    /\ report.total_revenue = 25000
    /\ Len(report.revenue_by_day) = 2
    /\ Len(report.sales_by_employee) = 4
    /\ \E i, j \in DOMAIN report.sales_by_employee :
          i # j /\ report.sales_by_employee[i] = report.sales_by_employee[j]
    /\ Cardinality({i \in 1..24 : report.hourly_distribution[i].count > 0}) = 3

\* the sales report of the tenant and the period of the last export
ReportOfExport ==
    sales_report(data, sales, installed, DefaultRow(report.hub, report.hub), report.hub,
                 Present(report.period), today)

\* the data rows of the last export whose Status column says completed
CompletedRows == SelectSeq(report.body, LAMBDA row : row[9] = "completed")

\* the Total column of the rows added up
RECURSIVE SumOfTotals(_)
SumOfTotals(body) == IF body = <<>> THEN 0 ELSE Head(body)[8] + SumOfTotals(Tail(body))

\* the Date column of a row, as a number of hours
WrittenAt(row) ==
    ((row[2].date.Y * 12 + row[2].date.m) * 31 + row[2].date.d) * 24 + row[2].hour

NewestFirst(body) == \A i, j \in DOMAIN body : i < j => WrittenAt(body[i]) >= WrittenAt(body[j])

\* C28 as stated: the sales export has one data row for each sale the sales
\* report of the same tenant and period counts: as many rows as total_sales,
\* their Total column adding up to total_revenue, newest first.
ExportRowsAreReportedSales ==
    report.done /\ report.view = "export_csv" /\ report.type = "sales" =>
        /\ Len(report.body) = ReportOfExport.total_sales
        /\ SumOfTotals(report.body) = ReportOfExport.total_revenue
        /\ NewestFirst(report.body)

\* C28: the sales export has one data row for each sale of the tenant in
\* the window that is not deleted, whatever its status; its rows with status
\* completed are one for each sale the sales report of the same tenant and
\* period counts: as many as total_sales, their Total column adding up to
\* total_revenue; the rows are ordered newest first.
ExportCompletedRowsAreReportedSales ==
    report.done /\ report.view = "export_csv" /\ report.type = "sales" =>
        LET written == {sale \in DOMAIN sales :
                           /\ "sales" \in installed
                           /\ sale.hub_id = report.hub
                           /\ ~sale.is_deleted
                           /\ sale.created_at >= ReportOfExport.start_date
                           /\ sale.created_at <= ReportOfExport.end_date}
        IN /\ Len(report.body) = Count(sales, written)
           /\ Len(CompletedRows) = ReportOfExport.total_sales
           /\ SumOfTotals(CompletedRows) = ReportOfExport.total_revenue
           /\ NewestFirst(report.body)

\* an export of the month with a pending sale among completed sales of two
\* days
ExportCompletedRowsAreReportedSalesWitness ==
    /\ report.done
    /\ report.view = "export_csv"
    /\ report.type = "sales"
    /\ ReportOfExport.total_sales >= 3
    /\ Len(report.body) > Len(CompletedRows)
    /\ ReportOfExport.total_revenue > 0
    /\ WrittenAt(report.body[1]) > WrittenAt(report.body[Len(report.body)]) + 24

(***************************************************************************)
(* Properties of the export's rows                                         *)
(***************************************************************************)
\* C30: every data row of an export has as many fields as the header row of
\* its report type, 9 for sales, 7 for products and 6 for customers; for any
\* other report type the export has no header row and no data row.
ExportRowsMatchHeader ==
    report.done /\ report.view = "export_csv" =>
        LET columns == [sales |-> 9, products |-> 7, customers |-> 6]
        IN IF report.type \in DOMAIN columns
           THEN /\ Len(report.header) = 1
                /\ Len(report.header[1]) = columns[report.type]
                /\ \A i \in DOMAIN report.body : Len(report.body[i]) = columns[report.type]
           ELSE report.header = <<>> /\ report.body = <<>>

\* a products export with data rows
ExportRowsMatchHeaderWitness ==
    /\ report.done
    /\ report.view = "export_csv"
    /\ report.type = "products"
    /\ Len(report.body) >= 2
    /\ Len(report.body[1]) = 7

====
